---- MODULE Spec2Model ----
(***************************************************************************)
(* Model of the CSGO price prediction services (prediction_service_v2.py   *)
(* and prediction_service_v3_improved.py): the ModelCacheManager with its  *)
(* per-item lock registry, the PredictionModel life cycle (load_model,     *)
(* train, _full_retrain, _incremental_train, save_model) and the request   *)
(* handlers that drive them from several threads.                          *)
(*                                                                         *)
(* Three specifications are defined over the same variables:               *)
(*   CacheSpec  the ModelCacheManager alone, driven by arbitrary calls of  *)
(*              its public methods;                                        *)
(*   Spec       the service under concurrency: every thread serves one     *)
(*              request, all at the same time; the collaborators (database,*)
(*              file system, forecasters) show one representative of each  *)
(*              class of behaviour;                                        *)
(*   TrainSpec  the life cycle of one item's model: the requests about it  *)
(*              arrive one after another and the collaborators show every  *)
(*              behaviour the code distinguishes.                          *)
(***************************************************************************)
EXTENDS Integers, Sequences, FiniteSets, TLC

VARIABLES
    version,        \* "v2" or "v3": which service module is deployed
    cache,          \* ModelCacheManager.cache: dict good_id -> model
    access_time,    \* ModelCacheManager.access_time: dict good_id -> time
    max_size,       \* ModelCacheManager.max_size
    item_locks,     \* ModelCacheManager.item_locks: dict good_id -> Lock object
    locks,          \* the Lock objects created so far: owner thread or 0
    now,            \* the value the next time.time() call returns
    disk,           \* MODEL_DIR: good_id -> content of the model file
    metrics_disk,   \* METRICS_DIR: good_id -> content of the metrics file
    pc,             \* position of each thread in its request handler
    req,            \* the request a thread serves: kind and good_id
    item_lock,      \* handler local: the Lock object returned by get_lock
    model,          \* handler local: the PredictionModel object
    cycle,          \* handler local: state of the running train() call
    resp,           \* the response of the finished handler
    hist,           \* history: what happened to each item
    scope,          \* which behaviours of the collaborators a run considers
    budget,         \* requests that may still arrive (sequential runs)
    trace,          \* history: the calls made on the cache in CacheSpec
    alerts,         \* ALERT_SYSTEM.alerts: the list of Alert objects
    clock,          \* datetime.now() as the alert system reads it
    call            \* the call made on a single component, and its result

vars == <<version, cache, access_time, max_size, item_locks, locks, now,
          disk, metrics_disk, pc, req, item_lock, model, cycle, resp,
          hist, scope, budget, trace, alerts, clock, call>>

cache_vars == <<cache, access_time, max_size, item_locks, locks, now>>
thread_vars == <<pc, req, item_lock, model, cycle, resp>>

----------------------------------------------------------------------------
(* Bounds *)

NumThreads == 2        \* threads serving one request each
NumItems == 2          \* good_ids the requests are about
NumData == 1           \* distinct price series the database can return
MaxRequests == 2       \* requests that arrive in a sequential run
MaxCacheSize == 2      \* largest max_size CacheSpec constructs a cache with
MaxTrace == 4          \* calls made on the cache in CacheSpec
MaxAlerts == 2         \* alerts the store holds in AlertSpec

Threads == 1..NumThreads
Items == 1..NumItems
Keys == 1..(MaxCacheSize + 1)

----------------------------------------------------------------------------
(* The collaborators: database, file system, forecasters *)

\* What the collaborators can do.  A life-cycle run considers every
\* behaviour the code distinguishes, a concurrent run one of each class.
Full == scope = "lifecycle"
\* fetch_historical_data: -1 it raises, 0 it returns None, else len(df)
FetchResults == IF Full THEN {-1, 0, 5, 12, 30}
                ELSE IF scope = "batch" THEN {-1, 5, 30} ELSE {5, 30}
\* age of the last observation, in hours
AgeHours == {1, 30}
\* sell_orders of the last observation
SellOrders == IF Full THEN {50, 90, 200} ELSE {200}
\* quality_score of the report, 0: check_quality raises
Scores == IF Full THEN {0, 30, 50, 70, 90} ELSE {90}
\* all sell prices of the last 12 hours are the same
Stagnant == IF Full THEN BOOLEAN ELSE {FALSE}
\* DataCleaner.clean_data: raises, returns fewer than 10 rows, or enough
CleanResults == {"raise", "short", "ok"}
\* detect_drift: drift_level ("raise": it raises) and ks_statistic * 10
DriftLevels == IF Full THEN {"raise", "none", "mild", "moderate", "severe"} ELSE {"none"}
KsTenths == IF Full THEN {1, 4, 6} ELSE {1}
\* datetime.now() - last_timestamp, in days
AgeDays == IF Full THEN {1, 5, 10} ELSE {1}
\* the submodel whose fit() raises
FitFailures == IF Full THEN {"none", "lr", "prophet", "xgb"} ELSE {"none"}
\* every _calculate_metrics call of the cycle raises (and returns {})
EvalFailures == IF Full THEN BOOLEAN ELSE {FALSE}
\* what writing the model file does
SaveResults == IF Full THEN {"ok", "open_fail", "dump_fail"} ELSE {"ok", "dump_fail"}
\* writing the metrics file succeeds
MetricsResults == IF Full THEN BOOLEAN ELSE {TRUE}
\* what model.predict does once the submodels exist
PredictResults == IF Full \/ scope = "batch" THEN {"ok", "none", "raise"} ELSE {"ok"}

----------------------------------------------------------------------------
(* PredictionModel objects *)

\* PredictionModel.__init__: the fields of a new model object.  Submodel
\* handles are "None", "unfitted" (constructed, fit() raised), "fitted"
\* (fit from scratch) or "warm" (fit continued from the previous booster).
\* Fields copied from a price series hold the id of that series, 0 is None.
\* obj and origin are history fields: the identity of the Python object and
\* how its content came about.
PredictionModel(good_id, obj) ==
    [good_id |-> good_id,
     lr |-> "None", prophet |-> "None", xgb |-> "None",
     last_price |-> 0, last_timestamp |-> 0, train_size |-> 0,
     weights |-> "prior",
     historical_prices |-> 0,
     metrics |-> [mape |-> 0, ensemble_mape |-> 0, training_count |-> 0,
                  last_training |-> 0, training_strategy |-> "unset"],
     obj |-> obj, origin |-> "new"]

NoModel == PredictionModel(0, 0)

----------------------------------------------------------------------------
(* ModelCacheManager *)

\* dict helpers: d[k] = v, del d[k]
DictSet(d, k, v) == [x \in DOMAIN d \cup {k} |-> IF x = k THEN v ELSE d[x]]
DictDel(d, k) == [x \in DOMAIN d \ {k} |-> d[x]]
EmptyDict == [x \in {} |-> 0]

\* min(self.access_time, key=self.access_time.get)
oldest_id == CHOOSE k \in DOMAIN access_time :
                 \A j \in DOMAIN access_time : access_time[k] <= access_time[j]

\* a registry that is a plain dict, assigned a new Lock on every call
get_lock_new(good_id) ==
    /\ locks' = Append(locks, 0)
    /\ item_locks' = DictSet(item_locks, good_id, Len(locks) + 1)

\* a registry that hands out one Lock object for every good_id
get_lock_shared(good_id) ==
    IF good_id \in DOMAIN item_locks
    THEN UNCHANGED <<item_locks, locks>>
    ELSE /\ locks' = IF locks = <<>> THEN <<0>> ELSE locks
         /\ item_locks' = DictSet(item_locks, good_id, 1)

\* ModelCacheManager.get_lock: item_locks is a defaultdict(Lock), a missing
\* key gets a new Lock object; the object returned is item_locks[good_id]
\* as it is after the call.
get_lock(good_id) ==
    IF good_id \in DOMAIN item_locks
    THEN UNCHANGED <<item_locks, locks>>
    ELSE /\ locks' = Append(locks, 0)
         /\ item_locks' = DictSet(item_locks, good_id, Len(locks) + 1)

\* get() that never finds the key
get_none(good_id) == NoModel

\* ModelCacheManager.get: the value returned
get_result(good_id) ==
    IF good_id \in DOMAIN cache THEN cache[good_id] ELSE NoModel

\* get() that forgets to refresh the access time of the key it returns
get_stale(good_id) ==
    UNCHANGED <<access_time, now, cache>>

\* ModelCacheManager.get: the effect on the manager
get(good_id) ==
    /\ IF good_id \in DOMAIN cache
       THEN /\ access_time' = DictSet(access_time, good_id, now)
            /\ now' = now + 1
       ELSE UNCHANGED <<access_time, now>>
    /\ UNCHANGED cache

\* put() that inserts without evicting
put_noevict(good_id, m) ==
    /\ cache' = DictSet(cache, good_id, m)
    /\ access_time' = DictSet(access_time, good_id, now)
    /\ now' = now + 1

\* ModelCacheManager.put
put(good_id, m) ==
    LET full == Cardinality(DOMAIN cache) >= max_size /\ good_id \notin DOMAIN cache
        c1 == IF full THEN DictDel(cache, oldest_id) ELSE cache
        a1 == IF full THEN DictDel(access_time, oldest_id) ELSE access_time
    IN  /\ cache' = DictSet(c1, good_id, m)
        /\ access_time' = DictSet(a1, good_id, now)
        /\ now' = now + 1

\* ModelCacheManager.clear
clear ==
    /\ cache' = EmptyDict
    /\ access_time' = EmptyDict
    /\ UNCHANGED now

\* ModelCacheManager.size
size == Cardinality(DOMAIN cache)

----------------------------------------------------------------------------
(* CacheSpec: the cache manager driven by arbitrary calls *)

CallGet(k) ==
    /\ Len(trace) < MaxTrace
    /\ get(k)
    /\ trace' = Append(trace, [op |-> "get", key |-> k, hit |-> k \in DOMAIN cache])
    /\ UNCHANGED <<item_locks, locks>>

CallPut(k) ==
    /\ Len(trace) < MaxTrace
    /\ put(k, PredictionModel(k, Len(trace) + 1))
    /\ trace' = Append(trace, [op |-> "put", key |-> k, hit |-> k \in DOMAIN cache])
    /\ UNCHANGED <<item_locks, locks>>

CallClear ==
    /\ Len(trace) < MaxTrace
    /\ clear
    /\ trace' = Append(trace, [op |-> "clear", key |-> 0, hit |-> FALSE])
    /\ UNCHANGED <<item_locks, locks>>

CallGetLock(k) ==
    /\ Len(trace) < MaxTrace
    /\ get_lock(k)
    /\ trace' = Append(trace, [op |-> "get_lock", key |-> k, hit |-> k \in DOMAIN item_locks])
    /\ UNCHANGED <<cache, access_time, now>>

Idle ==
    /\ pc = [t \in Threads |-> "done"]
    /\ req = [t \in Threads |-> [kind |-> "none", good_id |-> 0]]
    /\ item_lock = [t \in Threads |-> 0]
    /\ model = [t \in Threads |-> NoModel]
    /\ cycle = [t \in Threads |-> [status |-> "none", n |-> 0, d |-> 0, strategy |-> "none",
                                    outcome |-> "none", ret |-> "none"]]
    /\ resp = [t \in Threads |-> [status |-> "none", obj |-> 0]]

EmptyManager ==
    /\ cache = EmptyDict
    /\ access_time = EmptyDict
    /\ item_locks = EmptyDict
    /\ locks = <<>>
    /\ now = 1

CacheInit ==
    /\ version = "v3"
    /\ EmptyManager
    /\ max_size \in 1..MaxCacheSize
    /\ disk = [g \in Items |-> [state |-> "none", rec |-> NoModel]]
    /\ metrics_disk = [g \in Items |-> 0]
    /\ Idle
    /\ hist = [g \in Items |-> [train_calls |-> 0, train_true |-> 0, removed |-> FALSE,
                             untrained |-> disk[g].state = "none"]]
    /\ scope = "cache"
    /\ budget = 0
    /\ trace = <<>>
    /\ alerts = <<>>
    /\ clock = 0
    /\ call = [op |-> "none"]

CacheNext ==
    /\ \/ \E k \in Keys : CallGet(k)
       \/ \E k \in Keys : CallPut(k)
       \/ CallClear
       \/ \E k \in Keys : CallGetLock(k)
    /\ UNCHANGED <<version, max_size, disk, metrics_disk, hist, scope, budget, alerts, clock, call>>
    /\ UNCHANGED thread_vars

CacheSpec == CacheInit /\ [][CacheNext]_vars

----------------------------------------------------------------------------
(* PredictionModel: persistence *)

\* A model file is absent ("none"), holds a complete pickle ("ok"), holds a
\* complete pickle of an older model_version / feature set ("old"), or holds
\* the beginning of a pickle ("partial").
NoFile == [state |-> "none", rec |-> NoModel]
OldFile == [state |-> "old", rec |-> NoModel]
PartialFile == [state |-> "partial", rec |-> NoModel]
File(m) == [state |-> "ok", rec |-> m]

\* the series id of the observations a previous run of the service trained on
OldSeries == 1
\* the series the database can return now
Series == IF Full THEN (OldSeries + 1)..(OldSeries + NumData) ELSE {OldSeries + 1}
\* DataCleaner.clean_data returns another series
Cleaned(d) == d + 10

\* the record a previous run of the service has persisted; no_mape: every
\* _calculate_metrics call of that run failed, so the mape fields are None
PersistedRecord(g, no_mape) ==
    [PredictionModel(g, 0) EXCEPT
        !.lr = "fitted", !.prophet = "fitted", !.xgb = "fitted",
        !.last_price = OldSeries, !.last_timestamp = OldSeries, !.train_size = 9,
        !.weights = "normalized",
        !.historical_prices = IF version = "v3" THEN OldSeries ELSE 0,
        !.metrics = [mape |-> IF no_mape THEN 0 ELSE OldSeries,
                     ensemble_mape |-> IF no_mape THEN 0 ELSE OldSeries,
                     training_count |-> 1, last_training |-> 1,
                     training_strategy |-> "full_retrain"],
        !.origin = "persisted"]

\* PredictionModel.load_model on the object m, given the content of its
\* model file; db_raises: fetch_historical_data raises (v3 only).  The
\* result is the return value and the object afterwards: an exception after
\* the fields were assigned leaves them assigned and returns False.
load_model(m, file, db_raises) ==
    IF file.state # "ok"
    THEN [ok |-> FALSE, m |-> m]
    ELSE LET r == file.rec
             m1 == [m EXCEPT !.lr = r.lr, !.prophet = r.prophet, !.xgb = r.xgb,
                             !.last_price = r.last_price,
                             !.last_timestamp = r.last_timestamp,
                             !.train_size = r.train_size,
                             !.metrics = r.metrics,
                             !.weights = r.weights,
                             !.historical_prices = r.historical_prices,
                             !.origin = "loaded"]
             log_raises == r.metrics.last_training = 0 \/ r.metrics.ensemble_mape = 0
         IN  IF log_raises THEN [ok |-> FALSE, m |-> m1]
             ELSE IF version = "v3" /\ db_raises THEN [ok |-> FALSE, m |-> m1]
             ELSE [ok |-> TRUE, m |-> m1]

\* PredictionModel.save_model: the file after the call.  w is what the
\* file system does: "ok", open() fails, or pickle.dump fails after
\* open(path, 'wb') has truncated the file.
save_model(file, m, w) ==
    CASE w = "ok" -> File(m)
      [] w = "open_fail" -> file
      [] w = "dump_fail" -> PartialFile

\* the latest series _refresh_current_price reads (v3), 0: nothing read
Latest == IF version = "v2" THEN {0} ELSE IF Full THEN {0} \cup Series ELSE Series

\* _refresh_current_price (v3): r is the latest series of the database, or
\* 0 when the query fails or returns nothing
refresh_current_price(m, r) ==
    IF version = "v3" /\ r # 0
    THEN [m EXCEPT !.last_price = r, !.last_timestamp = r]
    ELSE m

----------------------------------------------------------------------------
(* Request handlers *)

NoCycle == [status |-> "none", n |-> 0, d |-> 0, strategy |-> "none",
            outcome |-> "none", ret |-> "none", quality |-> 0, clean |-> "none"]
NoResp == [status |-> "none", obj |-> 0]

Kinds == IF version = "v3" THEN {"predict", "clear"}
         ELSE {"predict", "metrics", "clear"}

InSection(t) == pc[t] \in {"get", "load", "train", "fit", "trained", "predict"}

\* a handler that returns without releasing its item lock
ReturnHolding(t, status, obj) ==
    /\ pc' = [pc EXCEPT ![t] = "done"]
    /\ resp' = [resp EXCEPT ![t] = [status |-> status, obj |-> obj]]
    /\ locks' = locks
    /\ model' = [model EXCEPT ![t] = NoModel]
    /\ cycle' = [cycle EXCEPT ![t] = NoCycle]

\* the handler returns: leaving the "with item_lock" block releases the lock
Return(t, status, obj) ==
    /\ pc' = [pc EXCEPT ![t] = "done"]
    /\ resp' = [resp EXCEPT ![t] = [status |-> status, obj |-> obj]]
    /\ locks' = IF InSection(t) THEN [locks EXCEPT ![item_lock[t]] = 0] ELSE locks
    /\ model' = [model EXCEPT ![t] = NoModel]
    /\ cycle' = [cycle EXCEPT ![t] = NoCycle]

Goto(t, label) ==
    /\ pc' = [pc EXCEPT ![t] = label]
    /\ UNCHANGED <<resp, locks>>

\* history of an item's cache entry: removed by an eviction or by clear()
MarkRemoved(h) ==
    [g \in Items |-> IF g \in DOMAIN cache /\ g \notin DOMAIN cache'
                     THEN [h[g] EXCEPT !.removed = TRUE] ELSE h[g]]

\* item_lock = CACHE_MANAGER.get_lock(good_id)
GetLock(t) ==
    /\ pc[t] = "start"
    /\ req[t].kind # "clear"
    /\ get_lock(req[t].good_id)
    /\ item_lock' = [item_lock EXCEPT ![t] = item_locks'[req[t].good_id]]
    /\ pc' = [pc EXCEPT ![t] = "acquire"]
    /\ UNCHANGED <<version, cache, access_time, max_size, now, disk, metrics_disk,
                   req, model, cycle, resp, hist, scope, budget, trace, alerts, clock, call>>

\* with item_lock:
Acquire(t) ==
    /\ pc[t] = "acquire"
    /\ locks[item_lock[t]] = 0
    /\ locks' = [locks EXCEPT ![item_lock[t]] = t]
    /\ pc' = [pc EXCEPT ![t] = "get"]
    /\ UNCHANGED <<version, cache, access_time, max_size, item_locks, now, disk,
                   metrics_disk, req, item_lock, model, cycle, resp, hist, scope, budget, trace, alerts, clock, call>>

\* model = CACHE_MANAGER.get(good_id); a miss constructs PredictionModel(good_id)
CacheGet(t) ==
    LET g == req[t].good_id IN
    /\ pc[t] = "get"
    /\ get(g)
    /\ IF get_result(g) # NoModel
       THEN IF req[t].kind = "predict"
            THEN /\ model' = [model EXCEPT ![t] = get_result(g)]
                 /\ cycle' = [cycle EXCEPT ![t].status = "cached"]
                 /\ Goto(t, "predict")
            ELSE Return(t, "ok", get_result(g).obj)
       ELSE /\ model' = [model EXCEPT ![t] = PredictionModel(g, t)]
            /\ cycle' = cycle
            /\ Goto(t, "load")
    /\ UNCHANGED <<version, max_size, item_locks, disk, metrics_disk,
                   req, item_lock, hist, scope, budget, trace, alerts, clock, call>>

\* model.load_model(); on success _refresh_current_price (v3) and
\* CACHE_MANAGER.put; on failure the predict handlers go on to train and
\* the model-metrics / data-quality handlers return 404
Load(t) ==
    LET g == req[t].good_id IN
    /\ pc[t] = "load"
    /\ \E db_raises \in (IF Full /\ version = "v3" /\ disk[g].state = "ok"
                          THEN BOOLEAN ELSE {FALSE}) :
         LET r == load_model(model[t], disk[g], db_raises) IN
         IF r.ok
         THEN \E latest \in Latest :
                LET m == refresh_current_price(r.m, latest) IN
                /\ put(g, m)
                /\ hist' = MarkRemoved(hist)
                /\ IF req[t].kind = "predict"
                   THEN /\ model' = [model EXCEPT ![t] = m]
                        /\ cycle' = [cycle EXCEPT ![t].status = "loaded_disk"]
                        /\ Goto(t, "predict")
                   ELSE Return(t, "ok", m.obj)
         ELSE /\ UNCHANGED <<cache, access_time, now, hist>>
              /\ IF req[t].kind = "predict"
                 THEN /\ model' = [model EXCEPT ![t] = r.m]
                      /\ cycle' = cycle
                      /\ Goto(t, "train")
                 ELSE Return(t, "not_found", 0)
    /\ UNCHANGED <<version, max_size, item_locks, disk, metrics_disk, req, item_lock, scope, budget, trace, alerts, clock, call>>

----------------------------------------------------------------------------
(* DriftAlertSystem *)

\* data.get('ensemble_mape') of metrics that hold no ensemble_mape
Missing == -1

\* self.rules, in the order _setup_rules adds them
Rules == <<"data_quality_critical", "too_many_outliers", "severe_drift",
           "moderate_drift", "high_volatility", "model_performance_drop",
           "consecutive_same_price">>

\* AlertRule.alert_level.value
alert_level(rule) ==
    IF rule \in {"data_quality_critical", "severe_drift"} THEN "critical" ELSE "warning"

\* AlertRule.condition_func: outlier_ratio, volatility and ensemble_mape are
\* in percent
triggered(rule, data) ==
    CASE rule = "data_quality_critical" -> data.quality_score < 40
      [] rule = "too_many_outliers" -> data.outlier_ratio > 15
      [] rule = "severe_drift" -> data.drift_level = "severe"
      [] rule = "moderate_drift" -> data.drift_level = "moderate"
      [] rule = "high_volatility" -> data.volatility > 8
      [] rule = "model_performance_drop" ->
             data.ensemble_mape # Missing /\ data.ensemble_mape > 25
      [] rule = "consecutive_same_price" -> data.consecutive_same > 10

\* the keys of the dict that the rule's condition_func returns
msg_dict(rule) ==
    CASE rule = "data_quality_critical" -> {"score", "level"}
      [] rule = "too_many_outliers" -> {"ratio"}
      [] rule = "severe_drift" -> {"drift_score", "reason"}
      [] rule = "moderate_drift" -> {"drift_score"}
      [] rule = "high_volatility" -> {"volatility"}
      [] rule = "model_performance_drop" -> {"mape"}
      [] rule = "consecutive_same_price" -> {"count"}

\* the fields that the rule's message_template names
message_template(rule) ==
    CASE rule = "data_quality_critical" -> {"good_id", "score", "level"}
      [] rule = "too_many_outliers" -> {"ratio"}
      [] rule = "severe_drift" -> {"drift_score", "reason"}
      [] rule = "moderate_drift" -> {"drift_score"}
      [] rule = "high_volatility" -> {"volatility"}
      [] rule = "model_performance_drop" -> {"mape"}
      [] rule = "consecutive_same_price" -> {"count"}

\* AlertRule.check, message_template.format(**msg_dict): KeyError for a
\* field of the template that the dict lacks
format_raises(rule) == ~(message_template(rule) \subseteq msg_dict(rule))

\* Alert(...): alert_id is "{good_id}_{rule_id}_{timestamp}"; 0 stands for
\* None in acknowledged_at, "None" for None in acknowledged_by
Alert(good_id, rule, time) ==
    [alert_id |-> <<good_id, rule, time>>, good_id |-> good_id, alert_type |-> rule,
     alert_level |-> alert_level(rule), acknowledged |-> FALSE,
     acknowledged_by |-> "None", acknowledged_at |-> 0]

RECURSIVE check_rules(_, _, _, _)
\* the loop of check_alerts from rule i on: the alerts it appends, and
\* whether a rule.check raised and ended the loop
check_rules(i, good_id, data, time) ==
    IF i > Len(Rules) THEN [raised |-> FALSE, new |-> <<>>]
    ELSE IF ~triggered(Rules[i], data) THEN check_rules(i + 1, good_id, data, time)
    ELSE IF format_raises(Rules[i]) THEN [raised |-> TRUE, new |-> <<>>]
    ELSE LET rest == check_rules(i + 1, good_id, data, time) IN
         [raised |-> rest.raised, new |-> <<Alert(good_id, Rules[i], time)>> \o rest.new]

\* DriftAlertSystem.check_alerts: the store afterwards and the list
\* returned, or the exception; the clock moves on when alerts are created
check_alerts(good_id, data) ==
    LET r == check_rules(1, good_id, data, clock + 1) IN
    [raised |-> r.raised, new |-> r.new, alerts |-> alerts \o r.new,
     clock |-> IF r.new = <<>> THEN clock ELSE clock + 1]

\* acknowledge_alert that flips the flag of the alert
acknowledge_toggle(alert_id, acknowledged_by) ==
    LET hits == {i \in 1..Len(alerts) : alerts[i].alert_id = alert_id} IN
    IF hits = {} THEN [ok |-> FALSE, alerts |-> alerts]
    ELSE LET i == CHOOSE h \in hits : \A k \in hits : h <= k IN
         [ok |-> TRUE,
          alerts |-> [alerts EXCEPT ![i].acknowledged = ~@,
                                    ![i].acknowledged_by = acknowledged_by,
                                    ![i].acknowledged_at = clock]]

\* DriftAlertSystem.acknowledge_alert: the first alert with the id
acknowledge_alert(alert_id, acknowledged_by) ==
    LET hits == {i \in 1..Len(alerts) : alerts[i].alert_id = alert_id} IN
    IF hits = {} THEN [ok |-> FALSE, alerts |-> alerts]
    ELSE LET i == CHOOSE h \in hits : \A k \in hits : h <= k IN
         [ok |-> TRUE,
          alerts |-> [alerts EXCEPT ![i].acknowledged = TRUE,
                                    ![i].acknowledged_by = acknowledged_by,
                                    ![i].acknowledged_at = clock]]

\* get_active_alerts that ignores its good_id
get_active_alerts_all(good_id) ==
    SelectSeq(alerts, LAMBDA a : ~a.acknowledged)

\* DriftAlertSystem.get_active_alerts: good_id 0 stands for None
get_active_alerts(good_id) ==
    IF good_id = 0 THEN SelectSeq(alerts, LAMBDA a : ~a.acknowledged)
    ELSE SelectSeq(alerts, LAMBDA a : ~a.acknowledged /\ a.good_id = good_id)

\* DriftAlertSystem.get_alert_summary, without recent_alerts
get_alert_summary ==
    [total_alerts |-> Len(alerts),
     unacknowledged |-> Len(SelectSeq(alerts, LAMBDA a : ~a.acknowledged)),
     by_level |-> [level \in {"info", "warning", "critical"} |->
                     Len(SelectSeq(alerts, LAMBDA a : a.alert_level = level))]]

\* the combined data of check_alerts when only the quality score and the
\* drift level are findings
Report(quality_score, drift_level) ==
    [quality_score |-> quality_score, outlier_ratio |-> 0, drift_level |-> drift_level,
     volatility |-> 0, ensemble_mape |-> Missing, consecutive_same |-> 0]

----------------------------------------------------------------------------
(* PredictionModel.train *)

\* DataQualityChecker.check_quality: the level of a score
quality_level(score) ==
    IF score >= 80 THEN "good" ELSE IF score >= 60 THEN "warning" ELSE "critical"

\* a decision procedure that looks at drift_level only, not at ks_statistic
decide_by_level(m, age_days, drift_level, ks) ==
    IF m.xgb = "None" \/ m.lr = "None" \/ m.prophet = "None" THEN "full"
    ELSE LET model_age_days == IF m.last_timestamp # 0 THEN age_days ELSE 999 IN
         IF model_age_days > 7 THEN "full"
         ELSE IF drift_level = "severe" THEN "full"
         ELSE IF drift_level = "moderate" THEN "incremental"
         ELSE IF model_age_days > 3 THEN "incremental"
         ELSE "skip"

\* a decision procedure that looks at the drift before the age of the model
decide_drift_first(m, age_days, drift_level, ks) ==
    IF m.xgb = "None" \/ m.lr = "None" \/ m.prophet = "None" THEN "full"
    ELSE LET model_age_days == IF m.last_timestamp # 0 THEN age_days ELSE 999 IN
         IF drift_level = "severe" \/ ks > 5 THEN "full"
         ELSE IF drift_level = "moderate" \/ (3 < ks /\ ks <= 5) THEN "incremental"
         ELSE IF model_age_days > 7 THEN "full"
         ELSE IF model_age_days > 3 THEN "incremental"
         ELSE "skip"

\* PredictionModel._decide_training_strategy: ks is ks_statistic * 10
decide_training_strategy(m, age_days, drift_level, ks) ==
    IF m.xgb = "None" \/ m.lr = "None" \/ m.prophet = "None" THEN "full"
    ELSE LET model_age_days == IF m.last_timestamp # 0 THEN age_days ELSE 999 IN
         IF model_age_days > 7 THEN "full"
         ELSE IF drift_level = "severe" \/ ks > 5 THEN "full"
         ELSE IF drift_level = "moderate" \/ (3 < ks /\ ks <= 5) THEN "incremental"
         ELSE IF model_age_days > 3 THEN "incremental"
         ELSE "skip"

\* the handler that lets every exception of train() through
train_reraise(ret) == ret

\* train(): "except Exception: ... return False"
train_except(ret) == IF ret = "raise" THEN "false" ELSE ret

\* train() returns (or raises): the object is left as m
\* quality and clean are the quality score the cycle saw and what became of
\* its cleaning ("keep": clean_data was not called)
EndCycle(t, m, outcome, ret, quality, clean) ==
    /\ model' = [model EXCEPT ![t] = m]
    /\ cycle' = [cycle EXCEPT ![t].outcome = outcome, ![t].ret = train_except(ret),
                              ![t].quality = quality, ![t].clean = clean]
    /\ Goto(t, "trained")

EndTrain(t, m, outcome, ret) ==
    EndCycle(t, m, outcome, ret, cycle[t].quality, cycle[t].clean)

\* train() returns before it reaches check_alerts
EndEarly(t, m, outcome, ret) ==
    /\ EndTrain(t, m, outcome, ret)
    /\ UNCHANGED <<alerts, clock>>

\* train() returns after check_quality and before it reaches check_alerts
EndChecked(t, m, outcome, ret, quality, clean) ==
    /\ EndCycle(t, m, outcome, ret, quality, clean)
    /\ UNCHANGED <<alerts, clock>>

\* train() from its first statement to the training decision
TrainBody(t, n, d) ==
    LET m0 == model[t]
        m1 == IF version = "v3" THEN [m0 EXCEPT !.historical_prices = d] ELSE m0
    IN
    IF n < 10 THEN EndEarly(t, m0, "few_points", "false")
    ELSE \E age_hours \in AgeHours, sell_orders \in SellOrders :
      IF age_hours > 24 THEN EndEarly(t, m1, "stale", "false")
      ELSE IF sell_orders < 90 THEN EndEarly(t, m1, "low_orders", "false")
      ELSE \E q \in Scores :
        IF q = 0 THEN EndEarly(t, m1, "quality_raise", "raise")
        ELSE \E stagnant \in Stagnant :
          IF stagnant THEN EndChecked(t, m1, "stagnant", "false", q, "none")
          ELSE \E c \in (IF quality_level(q) = "critical" THEN CleanResults ELSE {"keep"}) :
            IF c = "raise" THEN EndChecked(t, m1, "clean_raise", "raise", q, c)
            ELSE IF c = "short" THEN EndChecked(t, m1, "clean_short", "false", q, c)
            ELSE LET d1 == IF c = "ok" THEN Cleaned(d) ELSE d
                     m2 == IF version = "v3" THEN [m1 EXCEPT !.historical_prices = d1] ELSE m1
                 IN
                 \E dl \in DriftLevels, ks \in KsTenths :
                   IF dl = "raise" THEN EndChecked(t, m2, "drift_raise", "raise", q, c)
                   ELSE LET r == check_alerts(req[t].good_id, Report(q, dl)) IN
                     /\ alerts' = r.alerts
                     /\ clock' = r.clock
                     /\ IF r.raised THEN EndCycle(t, m2, "alert_raise", "raise", q, c)
                        ELSE \E age_days \in AgeDays :
                          LET s == decide_training_strategy(m2, age_days, dl, ks) IN
                          IF s = "skip" THEN EndCycle(t, m2, "skip", "true", q, c)
                          ELSE /\ model' = [model EXCEPT ![t] = m2]
                               /\ cycle' = [cycle EXCEPT ![t].n = n, ![t].d = d1,
                                                         ![t].strategy = s,
                                                         ![t].quality = q,
                                                         ![t].clean = c]
                               /\ Goto(t, "fit")

\* df = fetch_historical_data(good_id); the handler's own length check;
\* model.train(df) up to the training decision
TrainStart(t) ==
    LET g == req[t].good_id IN
    /\ pc[t] = "train"
    /\ \E n \in FetchResults :
         IF n = -1 THEN Return(t, "error", 0) /\ UNCHANGED <<hist, alerts, clock>>
         ELSE IF n < 10 THEN Return(t, "skipped_no_data", 0) /\ UNCHANGED <<hist, alerts, clock>>
         ELSE \E d \in Series :
                /\ hist' = [hist EXCEPT ![g].train_calls = @ + 1]
                /\ TrainBody(t, n, d)
    /\ UNCHANGED <<version, cache, access_time, max_size, item_locks, now, disk,
                   metrics_disk, req, item_lock, scope, budget, trace, call>>

\* _full_retrain / _incremental_train: fit and evaluate the submodels,
\* _update_weights, count the training, save_model, save_metrics
FitAndSave(t) ==
    LET g == req[t].good_id
        m0 == model[t]
        n == cycle[t].n
        d == cycle[t].d
        \* v3: _incremental_train only calls _full_retrain
        incremental == version = "v2" /\ cycle[t].strategy = "incremental"
        tsize == IF version = "v3" /\ n >= 20 THEN n - 14 ELSE (n * 8) \div 10
        m1 == [m0 EXCEPT !.train_size = tsize, !.last_price = d, !.last_timestamp = d]
    IN
    /\ pc[t] = "fit"
    /\ \E fail \in FitFailures, eval_fail \in EvalFailures :
         LET mape == IF eval_fail THEN m0.metrics.mape ELSE d
             mlr == [m1 EXCEPT !.lr = IF fail = "lr" THEN "unfitted" ELSE "fitted"]
             mpr == [mlr EXCEPT !.metrics.mape = mape,
                                !.prophet = IF fail = "prophet" THEN "unfitted" ELSE "fitted"]
             mxg == [mpr EXCEPT !.xgb = IF incremental /\ m0.xgb # "None"
                                        THEN (IF fail = "xgb" THEN m0.xgb ELSE "warm")
                                        ELSE (IF fail = "xgb" THEN "unfitted" ELSE "fitted")]
             mfit == [mxg EXCEPT
                        !.weights = "normalized",
                        !.metrics = [mape |-> mape,
                                     ensemble_mape |-> IF eval_fail THEN m0.metrics.ensemble_mape ELSE d,
                                     training_count |-> m0.metrics.training_count + 1,
                                     last_training |-> 1,
                                     training_strategy |-> IF incremental THEN "incremental"
                                                           ELSE "full_retrain"]]
         IN
         IF fail = "lr" THEN EndTrain(t, mlr, "fit_raise", "false") /\ UNCHANGED <<disk, metrics_disk>>
         ELSE IF fail = "prophet" THEN EndTrain(t, mpr, "fit_raise", "false") /\ UNCHANGED <<disk, metrics_disk>>
         ELSE IF fail = "xgb" THEN EndTrain(t, mxg, "fit_raise", "false") /\ UNCHANGED <<disk, metrics_disk>>
         ELSE \E w \in SaveResults, metrics_ok \in MetricsResults :
                LET msaved == [mfit EXCEPT !.origin = IF w = "ok" THEN "persisted" ELSE "unsaved"] IN
                /\ disk' = [disk EXCEPT ![g] = save_model(disk[g], msaved, w)]
                /\ metrics_disk' = [metrics_disk EXCEPT ![g] =
                                      IF metrics_ok THEN mfit.metrics.training_count ELSE @]
                /\ EndTrain(t, msaved,
                            IF eval_fail THEN "trained_eval_failed" ELSE "trained", "true")
    /\ UNCHANGED <<version, cache, access_time, max_size, item_locks, now,
                   req, item_lock, hist, scope, budget, trace, alerts, clock, call>>

\* "if not model.train(df): return ..." and CACHE_MANAGER.put(good_id, model)
AfterTrain(t) ==
    LET g == req[t].good_id IN
    /\ pc[t] = "trained"
    /\ IF cycle[t].ret = "true"
       THEN /\ put(g, model[t])
            /\ hist' = [MarkRemoved(hist) EXCEPT ![g].train_true = @ + 1]
            /\ cycle' = [cycle EXCEPT ![t].status = "trained"]
            /\ model' = model
            /\ Goto(t, "predict")
       ELSE /\ Return(t, IF cycle[t].ret = "false" THEN "skipped_train_failed" ELSE "error", 0)
            /\ UNCHANGED <<cache, access_time, now, hist>>
    /\ UNCHANGED <<version, max_size, item_locks, disk, metrics_disk, req, item_lock, scope, budget, trace, alerts, clock, call>>

\* (v3, cached model) _refresh_current_price; result = model.predict();
\* the handler returns
Predict(t) ==
    LET g == req[t].good_id IN
    /\ pc[t] = "predict"
    /\ \E latest \in (IF cycle[t].status = "cached" THEN Latest ELSE {0}) :
         LET m == refresh_current_price(model[t], latest) IN
         \* the cached object is the one the handler holds
         /\ cache' = IF g \in DOMAIN cache /\ cache[g].obj = m.obj
                     THEN [cache EXCEPT ![g] = m] ELSE cache
         /\ IF m.lr = "None" \/ m.prophet = "None" \/ m.xgb = "None"
            THEN Return(t, "predict_failed", m.obj)
            ELSE \E r \in PredictResults :
                   Return(t, CASE r = "ok" -> cycle[t].status
                               [] r = "none" -> "predict_failed"
                               [] r = "raise" -> "error", m.obj)
    /\ UNCHANGED <<version, access_time, max_size, item_locks, now, disk,
                   metrics_disk, req, item_lock, hist, scope, budget, trace, alerts, clock, call>>

\* clear_cache_endpoint: size = CACHE_MANAGER.size()
ClearSize(t) ==
    /\ pc[t] = "start"
    /\ req[t].kind = "clear"
    /\ cycle' = [cycle EXCEPT ![t].n = size]
    /\ pc' = [pc EXCEPT ![t] = "clear"]
    /\ UNCHANGED <<version, cache, access_time, max_size, item_locks, locks, now,
                   disk, metrics_disk, req, item_lock, model, resp, hist, scope, budget, trace, alerts, clock, call>>

\* clear_cache_endpoint: CACHE_MANAGER.clear() and the response
ClearCache(t) ==
    /\ pc[t] = "clear"
    /\ clear
    /\ hist' = MarkRemoved(hist)
    /\ Return(t, "cleared", cycle[t].n)
    /\ UNCHANGED <<version, max_size, item_locks, disk, metrics_disk, req, item_lock, scope, budget, trace, alerts, clock, call>>

----------------------------------------------------------------------------
(* Spec: the service *)

\* the model files a previous run of the service can have left behind
InitFiles(g) ==
    IF Full THEN {NoFile, OldFile, File(PersistedRecord(g, FALSE)), File(PersistedRecord(g, TRUE))}
    ELSE {NoFile, File(PersistedRecord(g, FALSE))}

Requests == {[kind |-> k, good_id |-> g] : k \in Kinds \ {"clear"}, g \in Items}
                \cup {[kind |-> "clear", good_id |-> 0]}

\* the process has started: an empty cache of max_size entries (500 in the
\* source, scaled so that the items do not all fit) and the files on disk
Started ==
    /\ version \in {"v2", "v3"}
    /\ EmptyManager
    /\ max_size = NumItems - 1
    /\ disk \in {f \in [Items -> UNION {InitFiles(g) : g \in Items}] :
                   \A g \in Items : f[g] \in InitFiles(g)}
    /\ metrics_disk = [g \in Items |-> 0]
    /\ item_lock = [t \in Threads |-> 0]
    /\ model = [t \in Threads |-> NoModel]
    /\ cycle = [t \in Threads |-> NoCycle]
    /\ resp = [t \in Threads |-> NoResp]
    /\ hist = [g \in Items |-> [train_calls |-> 0, train_true |-> 0, removed |-> FALSE,
                             untrained |-> disk[g].state = "none"]]
    /\ trace = <<>>
    /\ alerts = <<>>
    /\ clock = 0

\* The threads run the same handlers, so a run in which they serve the
\* requests in another assignment is a renaming of one in which the requests
\* are handed out in this order.
RequestOrder(r) ==
    (CASE r.kind = "predict" -> 0 [] r.kind = "metrics" -> 1 [] r.kind = "clear" -> 2)
        * (NumItems + 1) + r.good_id

Init ==
    /\ scope = "concurrent"
    /\ budget = 0
    /\ Started
    /\ call = [op |-> "none"]
    /\ pc = [t \in Threads |-> "start"]
    /\ req \in {f \in [Threads -> Requests] :
                  \A t \in Threads \ {NumThreads} :
                      RequestOrder(f[t]) <= RequestOrder(f[t + 1])}

Next ==
    \E t \in Threads :
        \/ GetLock(t)
        \/ Acquire(t)
        \/ CacheGet(t)
        \/ Load(t)
        \/ TrainStart(t)
        \/ FitAndSave(t)
        \/ AfterTrain(t)
        \/ Predict(t)
        \/ ClearSize(t)
        \/ ClearCache(t)

Spec == Init /\ [][Next]_vars

\* the steps of the request thread t serves
Step(t) ==
    \/ GetLock(t)
    \/ Acquire(t)
    \/ CacheGet(t)
    \/ Load(t)
    \/ TrainStart(t)
    \/ FitAndSave(t)
    \/ AfterTrain(t)
    \/ Predict(t)
    \/ ClearSize(t)
    \/ ClearCache(t)

\* FairSpec: every call a handler makes returns, and a thread that can
\* take its lock is scheduled: no thread stays for ever before a step it can
\* take
FairSpec == Init /\ [][Next]_vars /\ \A t \in Threads : WF_vars(Step(t))

----------------------------------------------------------------------------
(* TrainSpec: the requests about one item, served one after another *)

\* the item of the life cycle: the smallest good_id
TheItem == CHOOSE g \in Items : \A h \in Items : g <= h

\* the next request arrives once the previous one has been answered
Arrive ==
    /\ budget > 0
    /\ \A t \in Threads : pc[t] = "done"
    /\ budget' = budget - 1
    /\ \E r \in {q \in Requests : q.good_id \in {0, TheItem}} : req' = [req EXCEPT ![1] = r]
    /\ pc' = [pc EXCEPT ![1] = "start"]
    /\ resp' = [resp EXCEPT ![1] = NoResp]
    /\ UNCHANGED <<version, cache, access_time, max_size, item_locks, locks, now,
                   disk, metrics_disk, item_lock, model, cycle, hist, scope, trace, alerts, clock, call>>

TrainInit ==
    /\ scope = "lifecycle"
    /\ budget = MaxRequests
    /\ Started
    /\ call = [op |-> "none"]
    /\ \A g \in Items \ {TheItem} : disk[g] = NoFile
    /\ pc = [t \in Threads |-> "done"]
    /\ req = [t \in Threads |-> [kind |-> "none", good_id |-> 0]]

TrainNext == Next \/ Arrive

TrainSpec == TrainInit /\ [][TrainNext]_vars

----------------------------------------------------------------------------
(* BatchSpec: one batch prediction, its workers running process_single_good *)

\* the statuses of process_single_good, and thread_error of the batch loop
Statuses == {"trained", "loaded_disk", "cached", "skipped_no_data",
             "skipped_train_failed", "predict_failed", "error", "thread_error"}

\* the pool threads of the batch: one per entry of good_ids
Workers == {t \in Threads : req[t].kind = "predict"}

\* a loop that counts the successful items only
count_success_only(stats, status) ==
    IF status \in {"trained", "loaded_disk", "cached"}
    THEN [stats EXCEPT ![status] = @ + 1]
    ELSE stats

\* stats[status] += 1
count_result(stats, status) == [stats EXCEPT ![status] = @ + 1]

\* for future in as_completed(future_to_good): one finished worker is
\* counted; process_single_good returns (result, status) and the result is
\* not None for the statuses trained, loaded_disk and cached
Collect(t) ==
    /\ call.op = "batch_predict" /\ ~call.done
    /\ t \in Workers \ call.processed
    /\ pc[t] = "done"
    /\ call' = [call EXCEPT
                  !.processed = @ \cup {t},
                  !.stats = count_result(@, resp[t].status),
                  !.results = IF resp[t].status \in {"trained", "loaded_disk", "cached"}
                              THEN Append(@, [good_id |-> req[t].good_id, obj |-> resp[t].obj])
                              ELSE @]
    /\ UNCHANGED <<version, disk, metrics_disk, hist, scope, budget, trace, alerts, clock>>
    /\ UNCHANGED cache_vars
    /\ UNCHANGED thread_vars

\* the pool has shut down: return jsonify({...}), 200
BatchReturn ==
    /\ call.op = "batch_predict" /\ ~call.done
    /\ call.processed = Workers
    /\ call' = [call EXCEPT !.done = TRUE,
                            !.out = [total_requested |-> Cardinality(Workers),
                                     total_success |-> Len(call.results)]]
    /\ UNCHANGED <<version, disk, metrics_disk, hist, scope, budget, trace, alerts, clock>>
    /\ UNCHANGED cache_vars
    /\ UNCHANGED thread_vars

\* a batch request has been received and a worker submitted for each of
\* its good_ids, which may repeat
BatchInit ==
    /\ scope = "batch"
    /\ budget = 0
    /\ Started
    /\ version = "v3"
    /\ pc = [t \in Threads |-> "start"]
    /\ req \in {f \in [Threads -> {r \in Requests : r.kind = "predict"}] :
                  \A t \in Threads \ {NumThreads} :
                      RequestOrder(f[t]) <= RequestOrder(f[t + 1])}
    /\ call = [op |-> "batch_predict", done |-> FALSE, processed |-> {},
               stats |-> [s \in Statuses |-> 0], results |-> <<>>,
               out |-> [total_requested |-> 0, total_success |-> 0]]

BatchNext ==
    \/ \E t \in Threads :
          \/ GetLock(t)
          \/ Acquire(t)
          \/ CacheGet(t)
          \/ Load(t)
          \/ TrainStart(t)
          \/ FitAndSave(t)
          \/ AfterTrain(t)
          \/ Predict(t)
          \/ Collect(t)
    \/ BatchReturn

BatchSpec == BatchInit /\ [][BatchNext]_vars

----------------------------------------------------------------------------
(* UnitSpec: one call of a function that depends on its arguments only *)

NoCall == [op |-> "none"]

\* a model object with the given submodels; ts: last_timestamp is set
ModelWith(lr, prophet, xgb, ts) ==
    [PredictionModel(1, 0) EXCEPT !.lr = lr, !.prophet = prophet, !.xgb = xgb,
                                  !.last_timestamp = IF ts THEN OldSeries ELSE 0]

\* A call is the function called (op), its arguments (arg), whether it has
\* returned (done) and what it returned (out).
\* the arguments of _decide_training_strategy: the model, its age in days,
\* and drift_level and ks_statistic * 10 of the drift report
DecideArgs ==
    [m : {ModelWith(lr, prophet, xgb, ts) :
              lr \in {"None", "fitted"}, prophet \in {"None", "fitted"},
              xgb \in {"None", "fitted"}, ts \in BOOLEAN},
     age_days : {1, 3, 4, 7, 8, 10},
     drift_level : {"none", "mild", "moderate", "severe"},
     ks : {0, 3, 4, 5, 6}]

\* Numbers of _update_weights: a float is NaN, Inf or the fraction n / d in
\* lowest terms with a positive denominator; None is no float.
RECURSIVE Gcd(_, _)
Gcd(a, b) == IF b = 0 THEN a ELSE Gcd(b, a % b)
Abs(a) == IF a < 0 THEN -a ELSE a
Frac(n, d) ==
    LET g == Gcd(Abs(n), Abs(d))
        sgn == IF d < 0 THEN -1 ELSE 1
    IN  [kind |-> "num", n |-> sgn * (n \div g), d |-> sgn * (d \div g)]
NaN == [kind |-> "nan", n |-> 0, d |-> 1]
Inf == [kind |-> "inf", n |-> 0, d |-> 1]
None == [kind |-> "none", n |-> 0, d |-> 1]
ZeroDivisionError == [kind |-> "raise", n |-> 0, d |-> 1]
Add(x, y) ==
    IF x.kind = "nan" \/ y.kind = "nan" THEN NaN
    ELSE IF x.kind = "inf" \/ y.kind = "inf" THEN Inf
    ELSE LET l == (x.d \div Gcd(x.d, y.d)) * y.d
         IN  Frac(x.n * (l \div x.d) + y.n * (l \div y.d), l)
\* x / y for a finite y other than 0
Div(x, y) ==
    IF x.kind # "num" THEN x ELSE Frac(x.n * y.d, x.d * y.n)
\* 1.0 / x
Inverse(x) ==
    IF x.kind = "nan" THEN NaN ELSE IF x.kind = "inf" THEN Frac(0, 1)
    ELSE IF x.n = 0 THEN ZeroDivisionError ELSE Frac(x.d, x.n)
Positive(x) == IF x.kind = "nan" THEN FALSE ELSE IF x.kind = "inf" THEN TRUE ELSE x.n > 0

\* the default weights of __init__, also the fallback of _update_weights
PriorWeights == [lr |-> Frac(2, 10), prophet |-> Frac(3, 10), xgb |-> Frac(5, 10)]

\* the 0.001 added to every error
Epsilon == Frac(1, 1000)

\* a validation MAPE as stored in self.metrics
MapeValues == {None, NaN, Inf, Frac(-1, 1000), Frac(0, 1), Frac(1, 1000), Frac(3, 1000),
               Frac(4, 1000)}

\* self.metrics.get(k) or 1.0: None and 0.0 are replaced by 1.0
OrOne(v) == IF v.kind = "none" \/ (v.kind = "num" /\ v.n = 0) THEN Frac(1, 1) ELSE v

\* _update_weights that leaves the xgb term out of the sum it divides by
update_weights_partial_sum(mape) ==
    LET inv == [k \in {"lr", "prophet", "xgb"} |-> Inverse(Add(OrOne(mape[k]), Epsilon))]
        total_inv == Add(inv.lr, inv.prophet)
    IN  IF \E k \in DOMAIN inv : inv[k] = ZeroDivisionError THEN PriorWeights
        ELSE IF Positive(total_inv)
             THEN [k \in DOMAIN inv |-> Div(inv[k], total_inv)]
             ELSE PriorWeights

\* PredictionModel._update_weights: the weights afterwards, given the
\* lr_mape, prophet_mape and xgb_mape of self.metrics
update_weights(mape) ==
    LET inv == [k \in {"lr", "prophet", "xgb"} |-> Inverse(Add(OrOne(mape[k]), Epsilon))]
        total_inv == Add(Add(inv.lr, inv.prophet), inv.xgb)
    IN  IF \E k \in DOMAIN inv : inv[k] = ZeroDivisionError THEN PriorWeights
        ELSE IF Positive(total_inv)
             THEN [k \in DOMAIN inv |-> Div(inv[k], total_inv)]
             ELSE PriorWeights

\* the combined data of check_alerts: every finding on both sides of its
\* threshold
AlertData ==
    [quality_score : {39, 40}, outlier_ratio : {15, 16},
     drift_level : {"none", "mild", "moderate", "severe"}, volatility : {8, 9},
     ensemble_mape : {Missing, 25, 26}, consecutive_same : {10, 11}]

\* the columns of the DataFrame: timestamp, buy_price, sell_price,
\* buy_orders, sell_orders
Columns == 5

\* len(df): around the limits 10 and 20 of the scoring, the empty series
\* and a single point
Points == {0, 1, 5, 9, 10, 19, 20, 40}

\* What check_quality measures on a series of n points, on both sides of
\* its thresholds: the missing cells (the prices themselves are present),
\* the outliers (never every point, the quartiles are not outliers), the
\* volatility in permille (0 with fewer than three points), the jumps of
\* more than 10% and the repeated prices among the n - 1 steps.
StatsOf(n) ==
    {c \in [total_points : {n},
            missing_values : {0, (n * Columns) \div 20, (n * Columns) \div 20 + 1},
            outlier_count : {0, n \div 20, n \div 20 + 1, n \div 10, n \div 10 + 1},
            volatility : {0, 50, 51},
            suspicious_days : {0, n \div 10, n \div 10 + 1},
            consecutive_same : {0, 5, 6}] :
        /\ c.missing_values <= n * (Columns - 1)
        /\ c.outlier_count < n \/ c.outlier_count = 0
        /\ n < 3 => c.volatility = 0
        /\ c.suspicious_days + c.consecutive_same <= n - 1
           \/ c.suspicious_days + c.consecutive_same = 0}

QualityArgs == UNION {StatsOf(n) : n \in Points}

\* no report yet
NoReport == [raised |-> FALSE, total_points |-> 0, quality_score |-> 0, quality_level |-> "none"]

\* the scoring with the two outlier penalties added up
quality_score_cumulative(c) ==
    LET n == c.total_points
        penalty ==
            (IF 20 * c.missing_values > n * Columns THEN 20 ELSE 0)
            + (IF 10 * c.outlier_count > n THEN 15 ELSE 0)
            + (IF 20 * c.outlier_count > n THEN 5 ELSE 0)
            + (IF c.volatility > 50 THEN 10 ELSE 0)
            + (IF c.consecutive_same > 5 THEN 15 ELSE 0)
            + (IF 10 * c.suspicious_days > n THEN 10 ELSE 0)
            + (IF n < 10 THEN 20 ELSE IF n < 20 THEN 10 ELSE 0)
        score == 100 - penalty
    IN  IF score < 0 THEN 0 ELSE IF score > 100 THEN 100 ELSE score

\* check_quality, lines 189-237: missing_ratio is missing_values /
\* (len(df) * len(df.columns)), outlier_ratio is outlier_count / len(prices)
quality_score(c) ==
    LET n == c.total_points
        s0 == 100
        s1 == IF 20 * c.missing_values > n * Columns THEN s0 - 20 ELSE s0
        s2 == IF 10 * c.outlier_count > n THEN s1 - 15
              ELSE IF 20 * c.outlier_count > n THEN s1 - 5 ELSE s1
        s3 == IF c.volatility > 50 THEN s2 - 10 ELSE s2
        s4 == IF c.consecutive_same > 5 THEN s3 - 15 ELSE s3
        s5 == IF 10 * c.suspicious_days > n THEN s4 - 10 ELSE s4
        s6 == IF n < 10 THEN s5 - 20 ELSE IF n < 20 THEN s5 - 10 ELSE s5
        min100 == IF s6 < 100 THEN s6 ELSE 100
    IN  IF min100 > 0 THEN min100 ELSE 0

\* DataQualityChecker.check_quality: with no rows, detect_outliers_iqr
\* divides len(outliers) by len(prices) = 0 and raises ZeroDivisionError
check_quality(c) ==
    IF c.total_points = 0
    THEN [raised |-> TRUE, total_points |-> 0, quality_score |-> 0, quality_level |-> "none"]
    ELSE [raised |-> FALSE, total_points |-> c.total_points,
          quality_score |-> quality_score(c),
          quality_level |-> quality_level(quality_score(c))]

\* len(prices) of detect_drift: the empty series, windows of 2 and 2, of
\* 3 and 2, of 6 and 3, of 21 and 9 points
DriftPoints == {0, 4, 5, 9, 30}

\* split_idx = int(len(prices) * (1 - self.recent_ratio)), recent_ratio 0.3
split_idx(n) == (n * 7) \div 10

\* What detect_drift measures on the two windows, in permille, on both
\* sides of its thresholds; for two windows with the same distribution the
\* shifts and the KL divergence are 0 and the p-value of the KS test is 1.
\* drift_threshold is in tenths.
DriftArgs ==
    {c \in [len : DriftPoints, same : BOOLEAN, drift_threshold : {5, 8},
            mean_shift_pct : {0, 50, 51, 100, 101},
            std_shift_pct : {0, 100, 101, 200, 201},
            ks_pvalue : {9, 10, 49, 50, 1000},
            kl_divergence : {0, 200, 201, 500, 501},
            range_shift_pct : {300, 301}] :
        /\ c.same => /\ c.mean_shift_pct = 0 /\ c.std_shift_pct = 0
                     /\ c.ks_pvalue = 1000 /\ c.kl_divergence = 0
        /\ (c.same \/ split_idx(c.len) < 3 \/ c.len - split_idx(c.len) < 3)
              => c.range_shift_pct = 300}

\* the report of the degenerate case, and the value of out before the call
NoDrift == [drift_score |-> 0, drift_level |-> "none", has_drift |-> FALSE]

\* a score that adds the lower tier to the higher one
drift_score_cumulative(c) ==
    LET total ==
          (IF c.mean_shift_pct > 100 THEN 30 ELSE 0) + (IF c.mean_shift_pct > 50 THEN 15 ELSE 0)
          + (IF c.std_shift_pct > 200 THEN 20 ELSE 0) + (IF c.std_shift_pct > 100 THEN 10 ELSE 0)
          + (IF c.ks_pvalue < 10 THEN 30 ELSE 0) + (IF c.ks_pvalue < 50 THEN 15 ELSE 0)
          + (IF c.kl_divergence > 500 THEN 10 ELSE 0) + (IF c.kl_divergence > 200 THEN 5 ELSE 0)
          + (IF c.range_shift_pct > 300 THEN 10 ELSE 0)
    IN  IF total < 100 THEN total ELSE 100

\* detect_drift, lines 385-416: the drift score; a range shift is 0 for the
\* same windows
drift_score(c) ==
    LET range == IF c.same THEN 0 ELSE c.range_shift_pct
        s1 == IF c.mean_shift_pct > 100 THEN 30 ELSE IF c.mean_shift_pct > 50 THEN 15 ELSE 0
        s2 == IF c.std_shift_pct > 200 THEN s1 + 20
              ELSE IF c.std_shift_pct > 100 THEN s1 + 10 ELSE s1
        s3 == IF c.ks_pvalue < 10 THEN s2 + 30 ELSE IF c.ks_pvalue < 50 THEN s2 + 15 ELSE s2
        s4 == IF c.kl_divergence > 500 THEN s3 + 10
              ELSE IF c.kl_divergence > 200 THEN s3 + 5 ELSE s3
        s5 == IF range > 300 THEN s4 + 10 ELSE s4
    IN  IF s5 < 100 THEN s5 ELSE 100

\* DataDriftDetector.detect_drift: drift_score, drift_level and has_drift of
\* the report
detect_drift(c) ==
    LET old_len == split_idx(c.len)
        new_len == c.len - old_len
        score == drift_score(c)
    IN  IF new_len < 3 \/ old_len < 3 THEN NoDrift
        ELSE IF score < 20
             THEN [drift_score |-> score, drift_level |-> "none", has_drift |-> FALSE]
        ELSE IF score < 40
             THEN [drift_score |-> score, drift_level |-> "mild",
                   has_drift |-> score >= c.drift_threshold * 4]
        ELSE IF score < 60
             THEN [drift_score |-> score, drift_level |-> "moderate",
                   has_drift |-> score >= c.drift_threshold * 6]
        ELSE [drift_score |-> score, drift_level |-> "severe", has_drift |-> TRUE]

\* The series train() is called with: 10 rows (timestamp in hours,
\* sell_price) in ascending order of timestamp, as fetch_historical_data
\* returns them.  The first 7 rows are an hour apart with alternating prices
\* and start at hour 0 or 14; the last 3 rows take their timestamps and prices
\* from the sets below, so that rows lie just inside, exactly at and just
\* outside the 12 hours before the latest one.
RecentHours == {20, 30, 31, 42, 43}
Prices == {1, 2}
EarlierRows(start) ==
    [i \in 1..7 |-> [timestamp |-> start + i - 1, sell_price |-> 1 + (i % 2)]]
Rows == [timestamp : RecentHours, sell_price : Prices]
Ascending(df) == \A i \in 1..(Len(df) - 1) : df[i].timestamp <= df[i + 1].timestamp
SeriesArgs ==
    {df \in {EarlierRows(start) \o <<a, b, c>> :
                start \in {0, 14}, a \in Rows, b \in Rows, c \in Rows} : Ascending(df)}

\* df['timestamp'].max()
timestamp_max(df) ==
    CHOOSE m \in {df[i].timestamp : i \in DOMAIN df} :
        \A i \in DOMAIN df : df[i].timestamp <= m

\* a guard that looks at the prices of the whole series
price_stagnant_whole(df) ==
    /\ Len(df) > 0
    /\ Cardinality({df[i].sell_price : i \in DOMAIN df}) = 1

\* train(): recent_6h = df[df['timestamp'] >= df['timestamp'].max() -
\* timedelta(hours=12)]; len(recent_6h) > 0 and
\* recent_6h['sell_price'].nunique() == 1
price_stagnant(df) ==
    LET recent_6h == SelectSeq(df, LAMBDA row : row.timestamp >= timestamp_max(df) - 12)
    IN  /\ Len(recent_6h) > 0
        /\ Cardinality({recent_6h[i].sell_price : i \in DOMAIN recent_6h}) = 1

WeightArgs == [lr : MapeValues, prophet : MapeValues, xgb : MapeValues]

UnitCalls ==
    {[op |-> "decide", arg |-> a, done |-> FALSE, out |-> "none", after |-> a] :
        a \in DecideArgs}
    \cup {[op |-> "update_weights", arg |-> a, done |-> FALSE, out |-> PriorWeights] :
             a \in WeightArgs}
    \cup {[op |-> "price_stagnant", arg |-> a, done |-> FALSE, out |-> FALSE] :
             a \in SeriesArgs}
    \cup {[op |-> "detect_drift", arg |-> a, done |-> FALSE, out |-> NoDrift] :
             a \in DriftArgs}
    \cup {[op |-> "check_quality", arg |-> a, done |-> FALSE, out |-> NoReport] :
             a \in QualityArgs}
    \cup {[op |-> "check_alerts", arg |-> [good_id |-> g, data |-> data], done |-> FALSE,
           out |-> [raised |-> FALSE, new |-> <<>>]] : g \in Items, data \in AlertData}

\* ALERT_SYSTEM.check_alerts(self.good_id, quality_report, drift_report,
\* performance_metrics) on the store as it is
ApplyCheckAlerts ==
    /\ call.op = "check_alerts"
    /\ ~call.done
    /\ LET r == check_alerts(call.arg.good_id, call.arg.data) IN
         /\ alerts' = r.alerts
         /\ clock' = r.clock
         /\ call' = [call EXCEPT !.out = [raised |-> r.raised, new |-> r.new],
                                 !.done = TRUE]
    /\ UNCHANGED <<version, max_size, disk, metrics_disk, hist, scope, budget, trace>>
    /\ UNCHANGED cache_vars
    /\ UNCHANGED thread_vars

\* the stagnation guard of train() on the series df
ApplyPriceStagnant ==
    /\ call.op = "price_stagnant"
    /\ ~call.done
    /\ call' = [call EXCEPT !.out = price_stagnant(call.arg), !.done = TRUE]
    /\ UNCHANGED <<version, max_size, disk, metrics_disk, hist, scope, budget, trace, alerts, clock>>
    /\ UNCHANGED cache_vars
    /\ UNCHANGED thread_vars

\* drift_report = DRIFT_DETECTOR.detect_drift(df['sell_price'].values)
ApplyDetectDrift ==
    /\ call.op = "detect_drift"
    /\ ~call.done
    /\ call' = [call EXCEPT !.out = detect_drift(call.arg), !.done = TRUE]
    /\ UNCHANGED <<version, max_size, disk, metrics_disk, hist, scope, budget, trace, alerts, clock>>
    /\ UNCHANGED cache_vars
    /\ UNCHANGED thread_vars

\* quality_report = QUALITY_CHECKER.check_quality(df, self.good_id)
ApplyCheckQuality ==
    /\ call.op = "check_quality"
    /\ ~call.done
    /\ call' = [call EXCEPT !.out = check_quality(call.arg), !.done = TRUE]
    /\ UNCHANGED <<version, max_size, disk, metrics_disk, hist, scope, budget, trace, alerts, clock>>
    /\ UNCHANGED cache_vars
    /\ UNCHANGED thread_vars

\* self._update_weights()
ApplyUpdateWeights ==
    /\ call.op = "update_weights"
    /\ ~call.done
    /\ call' = [call EXCEPT !.out = update_weights(call.arg), !.done = TRUE]
    /\ UNCHANGED <<version, max_size, disk, metrics_disk, hist, scope, budget, trace, alerts, clock>>
    /\ UNCHANGED cache_vars
    /\ UNCHANGED thread_vars

\* training_strategy = self._decide_training_strategy(df, drift_report, quality_report)
ApplyDecide ==
    /\ call.op = "decide"
    /\ ~call.done
    /\ call' = [call EXCEPT !.out = decide_training_strategy(call.arg.m, call.arg.age_days,
                                                            call.arg.drift_level, call.arg.ks),
                            !.after = call.arg, !.done = TRUE]
    /\ UNCHANGED <<version, max_size, disk, metrics_disk, hist, scope, budget, trace, alerts, clock>>
    /\ UNCHANGED cache_vars
    /\ UNCHANGED thread_vars

UnitInit ==
    /\ version \in {"v2", "v3"}
    /\ EmptyManager
    /\ max_size = MaxCacheSize
    /\ disk = [g \in Items |-> [state |-> "none", rec |-> NoModel]]
    /\ metrics_disk = [g \in Items |-> 0]
    /\ Idle
    /\ hist = [g \in Items |-> [train_calls |-> 0, train_true |-> 0, removed |-> FALSE,
                                untrained |-> TRUE]]
    /\ scope = "unit"
    /\ budget = 0
    /\ trace = <<>>
    /\ alerts = <<>>
    /\ clock = 0
    /\ call \in UnitCalls

UnitNext ==
    \/ ApplyDecide
    \/ ApplyUpdateWeights
    \/ ApplyCheckAlerts
    \/ ApplyCheckQuality
    \/ ApplyDetectDrift
    \/ ApplyPriceStagnant

UnitSpec == UnitInit /\ [][UnitNext]_vars

----------------------------------------------------------------------------
(* AlertSpec: the alert system alone, its methods called in any order *)

\* who acknowledges
Actors == {"ops", "trader"}

\* the reports of the checks: nothing found, a moderate drift, a severe
\* drift with too many outliers, a quality score below 40 without and with
\* a severe drift
AlertReports ==
    {Report(90, "none"), Report(90, "moderate"),
     [Report(70, "severe") EXCEPT !.outlier_ratio = 16],
     Report(30, "none"), Report(30, "severe")}

\* the ids of the stored alerts and one id that no alert has
AlertIds == {alerts[i].alert_id : i \in 1..Len(alerts)} \cup {<<TheItem, Rules[2], 0>>}

\* ALERT_SYSTEM.check_alerts(good_id, quality_report, drift_report, metrics)
CallCheckAlerts ==
    /\ \E g \in Items, data \in AlertReports :
         LET r == check_alerts(g, data) IN
         /\ Len(r.alerts) <= MaxAlerts
         /\ alerts' = r.alerts
         /\ clock' = r.clock
         /\ call' = [op |-> "check_alerts", arg |-> [good_id |-> g, data |-> data],
                     done |-> TRUE, out |-> [raised |-> r.raised, new |-> r.new]]
    /\ UNCHANGED <<version, max_size, disk, metrics_disk, hist, scope, budget, trace>>
    /\ UNCHANGED cache_vars
    /\ UNCHANGED thread_vars

\* ALERT_SYSTEM.acknowledge_alert(alert_id, acknowledged_by)
CallAcknowledgeAlert ==
    /\ \E alert_id \in AlertIds, by \in Actors :
         LET r == acknowledge_alert(alert_id, by) IN
         /\ alerts' = r.alerts
         /\ call' = [op |-> "acknowledge_alert",
                     arg |-> [alert_id |-> alert_id, acknowledged_by |-> by],
                     done |-> TRUE, out |-> r.ok]
    /\ UNCHANGED <<version, max_size, disk, metrics_disk, hist, scope, budget, trace, clock>>
    /\ UNCHANGED cache_vars
    /\ UNCHANGED thread_vars

\* ALERT_SYSTEM.get_active_alerts(good_id), good_id 0 for None
CallGetActiveAlerts ==
    /\ \E g \in {0} \cup Items :
         call' = [op |-> "get_active_alerts", arg |-> g, done |-> TRUE,
                  out |-> get_active_alerts(g)]
    /\ UNCHANGED <<version, max_size, disk, metrics_disk, hist, scope, budget, trace,
                   alerts, clock>>
    /\ UNCHANGED cache_vars
    /\ UNCHANGED thread_vars

\* ALERT_SYSTEM.get_alert_summary()
CallGetAlertSummary ==
    /\ call' = [op |-> "get_alert_summary", arg |-> 0, done |-> TRUE,
                out |-> get_alert_summary]
    /\ UNCHANGED <<version, max_size, disk, metrics_disk, hist, scope, budget, trace,
                   alerts, clock>>
    /\ UNCHANGED cache_vars
    /\ UNCHANGED thread_vars

\* DriftAlertSystem.__init__: no alerts
AlertInit ==
    /\ version = "v3"
    /\ EmptyManager
    /\ max_size = MaxCacheSize
    /\ disk = [g \in Items |-> [state |-> "none", rec |-> NoModel]]
    /\ metrics_disk = [g \in Items |-> 0]
    /\ Idle
    /\ hist = [g \in Items |-> [train_calls |-> 0, train_true |-> 0, removed |-> FALSE,
                                untrained |-> TRUE]]
    /\ scope = "alert"
    /\ budget = 0
    /\ trace = <<>>
    /\ alerts = <<>>
    /\ clock = 0
    /\ call = NoCall

AlertNext ==
    \/ CallCheckAlerts
    \/ CallAcknowledgeAlert
    \/ CallGetActiveAlerts
    \/ CallGetAlertSummary

AlertSpec == AlertInit /\ [][AlertNext]_vars

----------------------------------------------------------------------------
(* KlineDataFetcher.fetch_kline: the retry loop on HTTP 429 *)

\* fetch_kline(..., max_retries=5)
default_max_retries == 5

\* the values of max_retries the loop is run with
RetryLimits == {0, 1, 3, default_max_retries}

\* what one request of the loop ends in: HTTP 429, a DataFrame, or one of the
\* failures that return None
Responses == {"429", "df", "error"}

\* base_wait_time, in milliseconds
base_wait_time == 1000

\* jitter = np.random.uniform(0, wait_time * 0.1): the bounds and the middle
Jitters(wait_time) == {0, wait_time \div 20, wait_time \div 10}

\* wait_time = base_wait_time * (2 ** (retry_count - 1))
wait_time(retry_count) == base_wait_time * (2 ^ (retry_count - 1))

\* one pass of the while loop up to its return, or up to time.sleep
FetchRequest ==
    /\ call.op = "fetch_kline"
    /\ call.at = "request"
    /\ IF call.retry_count >= call.max_retries
       THEN call' = [call EXCEPT !.at = "returned", !.out = "None"]
       ELSE \E response \in Responses :
              CASE response = "df" ->
                     call' = [call EXCEPT !.requests = @ + 1, !.at = "returned", !.out = "df"]
                [] response = "error" ->
                     call' = [call EXCEPT !.requests = @ + 1, !.at = "returned",
                                          !.out = "None"]
                [] response = "429" ->
                     LET retry_count == call.retry_count + 1
                     IN  IF retry_count >= call.max_retries
                         THEN call' = [call EXCEPT !.requests = @ + 1,
                                                   !.retry_count = retry_count,
                                                   !.at = "returned", !.out = "None",
                                                   !.gave_up = TRUE]
                         ELSE \E jitter \in Jitters(wait_time(retry_count)) :
                                call' = [call EXCEPT
                                           !.requests = @ + 1,
                                           !.retry_count = retry_count,
                                           !.at = "sleep",
                                           !.waits = Append(@, [wait_time |-> wait_time(retry_count),
                                                                jitter |-> jitter])]
    /\ UNCHANGED <<version, max_size, disk, metrics_disk, hist, scope, budget, trace,
                   alerts, clock>>
    /\ UNCHANGED cache_vars
    /\ UNCHANGED thread_vars

\* time.sleep(actual_wait_time) returns; continue
FetchSleep ==
    /\ call.op = "fetch_kline"
    /\ call.at = "sleep"
    /\ call' = [call EXCEPT !.at = "request"]
    /\ UNCHANGED <<version, max_size, disk, metrics_disk, hist, scope, budget, trace,
                   alerts, clock>>
    /\ UNCHANGED cache_vars
    /\ UNCHANGED thread_vars

\* fetch_kline is entered: retry_count = 0, nothing requested
RetryInit ==
    /\ version = "v3"
    /\ EmptyManager
    /\ max_size = MaxCacheSize
    /\ disk = [g \in Items |-> [state |-> "none", rec |-> NoModel]]
    /\ metrics_disk = [g \in Items |-> 0]
    /\ Idle
    /\ hist = [g \in Items |-> [train_calls |-> 0, train_true |-> 0, removed |-> FALSE,
                                untrained |-> TRUE]]
    /\ scope = "retry"
    /\ budget = 0
    /\ trace = <<>>
    /\ alerts = <<>>
    /\ clock = 0
    /\ \E max_retries \in RetryLimits :
         call = [op |-> "fetch_kline", max_retries |-> max_retries, retry_count |-> 0,
                 requests |-> 0, waits |-> <<>>, at |-> "request", out |-> "pending",
                 gave_up |-> FALSE]

RetryNext ==
    \/ FetchRequest
    \/ FetchSleep

RetrySpec == RetryInit /\ [][RetryNext]_vars

----------------------------------------------------------------------------
(* Properties of the cache manager *)

\* C4: after any sequence of get/put/clear calls the number of cached
\* entries never exceeds max_size.
C4_SizeNeverExceedsMax == Cardinality(DOMAIN cache) <= max_size

\* a put of a key that was not cached arrived at a full cache
C4_Witness ==
    /\ trace # <<>>
    /\ trace[Len(trace)].op = "put"
    /\ ~trace[Len(trace)].hit
    /\ Cardinality({trace[i].key : i \in {j \in 1..Len(trace) : trace[j].op = "put"}}) > max_size
    /\ Cardinality(DOMAIN cache) = max_size

\* the position in the call history of the latest put() or get() hit of k
IsUse(e, k) == e.key = k /\ (e.op = "put" \/ (e.op = "get" /\ e.hit))
LastUse(tr, k) ==
    LET uses == {i \in 1..Len(tr) : IsUse(tr[i], k)}
    IN  IF uses = {} THEN 0 ELSE CHOOSE i \in uses : \A j \in uses : j <= i
LeastRecentlyUsed(tr, S) ==
    CHOOSE k \in S : \A j \in S : LastUse(tr, k) <= LastUse(tr, j)

ScenarioC ==
    <<[op |-> "put", key |-> 1, hit |-> FALSE],
      [op |-> "put", key |-> 2, hit |-> FALSE],
      [op |-> "get", key |-> 1, hit |-> TRUE],
      [op |-> "put", key |-> 3, hit |-> FALSE]>>

C5_Step ==
    LET e == trace'[Len(trace')]
        removed == DOMAIN cache \ DOMAIN cache'
    IN  Len(trace') = Len(trace) + 1 =>
        /\ e.op = "put" =>
              /\ removed # {} <=>
                    (e.key \notin DOMAIN cache /\ Cardinality(DOMAIN cache) = max_size)
              /\ removed # {} => removed = {LeastRecentlyUsed(trace, DOMAIN cache)}
              /\ DOMAIN cache' = (DOMAIN cache \ removed) \cup {e.key}
              /\ \A j \in DOMAIN cache' \ {e.key} : cache'[j] = cache[j]
        /\ e.op = "get" =>
              /\ cache' = cache
              /\ DOMAIN access_time' = DOMAIN access_time
              /\ \A j \in DOMAIN access_time \ {e.key} : access_time'[j] = access_time[j]
              /\ ~e.hit => access_time' = access_time
              /\ e.hit => access_time'[e.key] > access_time[e.key]
        /\ (max_size = 2 /\ trace' = ScenarioC) => DOMAIN cache' = {1, 3}

----------------------------------------------------------------------------
(* Properties of the request handlers *)

Predicts(g) == {t \in Threads : req[t] = [kind |-> "predict", good_id |-> g]}
AllDone == \A t \in Threads : pc[t] = "done"
\* the handler answered with a prediction of the model object resp[t].obj
Answered(t) == resp[t].status \in {"trained", "cached", "loaded_disk"}

C1_Step ==
    /\ \A t1, t2 \in Threads :
          (t1 # t2 /\ InSection(t1)' /\ InSection(t2)')
             => req'[t1].good_id # req'[t2].good_id
    /\ \A g \in DOMAIN item_locks :
          g \in DOMAIN item_locks' /\ item_locks'[g] = item_locks[g]
    /\ \A t \in Threads :
          (pc[t] = "start" /\ pc'[t] = "acquire")
             => item_lock'[t] = item_locks'[req[t].good_id]

\* C1: at most one thread at a time is inside the load / train / persist /
\* predict section of a good_id; get_lock(good_id) returns the lock object
\* the registry holds for that id, and no step (eviction and clear included)
\* removes or replaces a lock of the registry.
C1_OneTrainerPerItem == [][C1_Step]_vars

\* a thread is fitting the models of an item while another thread waits for
\* the same lock object
C1_Witness ==
    \E t1, t2 \in Threads :
        /\ t1 # t2
        /\ req[t1].good_id = req[t2].good_id
        /\ pc[t1] = "fit"
        /\ pc[t2] = "acquire"
        /\ item_lock[t1] = item_lock[t2]
        /\ locks[item_lock[t2]] = t1

\* C2 as stated: concurrent predict calls for an item without cached model
\* and without model file trigger exactly one train() invocation and all
\* of them observe the same model record.
C2_ExactlyOneTrain ==
    \A g \in Items :
        (hist[g].untrained /\ Predicts(g) = Threads /\ AllDone)
           => /\ hist[g].train_calls = 1
              /\ \A t1, t2 \in Threads : resp[t1].obj = resp[t2].obj

\* C2 amended: for an item without cached model and without model file,
\* as long as its cache entry is not evicted or cleared, at most one
\* train() returns true, every predict call that is answered with a
\* prediction observes the same model object, and every train() invocation
\* either is that one or is answered with a training failure.
C2_OneSuccessfulTrain ==
    \A g \in Items :
        (hist[g].untrained /\ ~hist[g].removed)
           => /\ hist[g].train_true <= 1
              /\ \A t1, t2 \in Predicts(g) :
                    (Answered(t1) /\ Answered(t2)) => resp[t1].obj = resp[t2].obj
              /\ AllDone =>
                    hist[g].train_calls = hist[g].train_true +
                        Cardinality({t \in Predicts(g) :
                                        resp[t].status = "skipped_train_failed"})

\* all threads asked for a prediction of the same untrained item: one
\* trained the model, another one was served the same object from the cache
C2_Witness ==
    \E g \in Items :
        /\ hist[g].untrained /\ Predicts(g) = Threads /\ AllDone
        /\ hist[g].train_calls = 1 /\ hist[g].train_true = 1
        /\ \E t1, t2 \in Threads :
              /\ resp[t1].status = "trained" /\ resp[t2].status = "cached"
              /\ resp[t1].obj = resp[t2].obj

----------------------------------------------------------------------------
(* Properties of the model life cycle *)

\* C3 as stated: a model is cached, and a training cycle returns true, only
\* if the model blob was written to disk in that cycle (or the model was
\* loaded from disk).
C3_CachedOnlyIfPersisted ==
    /\ \A g \in DOMAIN cache : cache[g].origin \in {"persisted", "loaded"}
    /\ \A t \in Threads :
          (pc[t] = "trained" /\ cycle[t].ret = "true"
              /\ cycle[t].outcome \in {"trained", "trained_eval_failed"})
             => model[t].origin = "persisted"

GuardOutcomes == {"few_points", "stale", "low_orders", "stagnant"}

\* C6 as stated: a train() rejected by a guard returns false and leaves
\* every field of the model, the cache and the files as they were.
C6_GuardsChangeNothing ==
    [][\A t \in Threads :
          (pc[t] = "train" /\ pc'[t] = "trained" /\ cycle'[t].outcome \in GuardOutcomes)
             => /\ cycle'[t].ret = "false"
                /\ model'[t] = model[t]
                /\ cache' = cache /\ disk' = disk /\ metrics_disk' = metrics_disk]_vars

\* C7 as stated: when the decision is 'skip', train() returns true and the
\* model record, stored history included, and its blob are unchanged.
C7_SkipChangesNothing ==
    [][\A t \in Threads :
          (pc[t] = "train" /\ pc'[t] = "trained" /\ cycle'[t].outcome = "skip")
             => /\ cycle'[t].ret = "true"
                /\ model'[t] = model[t]
                /\ disk' = disk /\ metrics_disk' = metrics_disk]_vars

\* C8 as stated: an exception while fitting or evaluating a submodel aborts
\* the cycle: train() returns false, no blob or metrics file is written and
\* the cached record is unchanged.
C8_FitFailureAborts ==
    [][\A t \in Threads :
          (pc[t] = "fit" /\ pc'[t] = "trained"
              /\ cycle'[t].outcome \in {"fit_raise", "trained_eval_failed"})
             => /\ cycle'[t].ret = "false"
                /\ cache' = cache /\ disk' = disk /\ metrics_disk' = metrics_disk]_vars

\* C9 as stated: a complete model file stays a complete file, whatever
\* happens while the blob is written.
C9_FileNeverPartial ==
    [][\A g \in Items :
          disk[g].state \in {"ok", "old"} => disk'[g].state \in {"ok", "old"}]_vars

FailureOutcomes == GuardOutcomes \cup {"quality_raise", "clean_raise", "clean_short",
                                       "drift_raise", "alert_raise", "fit_raise"}

----------------------------------------------------------------------------
(* Properties of the training decision *)

\* the decision table: the rules in their order, for the arguments a
DecisionTable(a) ==
    <<[when |-> a.m.lr = "None" \/ a.m.prophet = "None" \/ a.m.xgb = "None", then |-> "full"],
      [when |-> (IF a.m.last_timestamp # 0 THEN a.age_days ELSE 999) > 7, then |-> "full"],
      [when |-> a.drift_level = "severe" \/ a.ks > 5, then |-> "full"],
      [when |-> a.drift_level = "moderate" \/ (a.ks > 3 /\ a.ks <= 5), then |-> "incremental"],
      [when |-> (IF a.m.last_timestamp # 0 THEN a.age_days ELSE 999) > 3, then |-> "incremental"],
      [when |-> TRUE, then |-> "skip"]>>

FirstMatch(table) ==
    table[CHOOSE i \in 1..Len(table) :
              table[i].when /\ \A j \in 1..(i - 1) : ~table[j].when].then

Decided == call.op = "decide" /\ call.done
AllSubmodels(m) == m.lr # "None" /\ m.prophet # "None" /\ m.xgb # "None"

\* C11: _decide_training_strategy returns the outcome of the first matching
\* rule of the decision table; age 10 with drift 'none' gives full, a model
\* without submodels gives full for any drift and age; the arguments are
\* left as they were.
C11_FirstMatchingRule ==
    Decided =>
        /\ call.out = FirstMatch(DecisionTable(call.arg))
        /\ (call.arg.age_days = 10 /\ call.arg.drift_level = "none") => call.out = "full"
        /\ (call.arg.m.lr = "None" /\ call.arg.m.prophet = "None" /\ call.arg.m.xgb = "None")
              => call.out = "full"
        /\ call.after = call.arg

\* a complete model of age 10 without drift is retrained in full
C11_Witness ==
    /\ Decided
    /\ AllSubmodels(call.arg.m) /\ call.arg.m.last_timestamp # 0
    /\ call.arg.age_days = 10 /\ call.arg.drift_level = "none" /\ call.arg.ks = 0
    /\ call.out = "full"

\* C12 as stated: all submodels present, age 1 day and drift_level 'mild'
\* give the decision 'skip'.
C12_MildDriftSkips ==
    (Decided /\ AllSubmodels(call.arg.m) /\ call.arg.m.last_timestamp # 0
        /\ call.arg.age_days = 1 /\ call.arg.drift_level = "mild")
       => call.out = "skip"

\* C12 amended: all submodels present, age 1 day, drift_level 'mild' and
\* ks_statistic <= 0.3 give 'skip'; with 0.3 < ks_statistic <= 0.5 the
\* decision is 'incremental' and with ks_statistic > 0.5 it is 'full'.
C12_MildDriftLowKsSkips ==
    (Decided /\ AllSubmodels(call.arg.m) /\ call.arg.m.last_timestamp # 0
        /\ call.arg.age_days = 1 /\ call.arg.drift_level = "mild")
       => call.out = (IF call.arg.ks <= 3 THEN "skip"
                      ELSE IF call.arg.ks <= 5 THEN "incremental" ELSE "full")

\* the scenario with ks_statistic = 0.3
C12_Witness ==
    /\ Decided
    /\ AllSubmodels(call.arg.m) /\ call.arg.m.last_timestamp # 0
    /\ call.arg.age_days = 1 /\ call.arg.drift_level = "mild" /\ call.arg.ks = 3
    /\ call.out = "skip"

----------------------------------------------------------------------------
(* Properties of the ensemble weights *)

SumOfWeights(w) == Add(Add(w.lr, w.prophet), w.xgb)
WeightsUpdated == call.op = "update_weights" /\ call.done
\* a MAPE that is a finite positive number
FinitePositive(v) == v.kind = "num" /\ v.n > 0

\* C13: the default weights sum to 1, and after _update_weights the weights
\* sum to 1: they are the inverse errors 1 / (mape + 0.001) divided by their
\* sum when that sum is positive, and the prior {0.2, 0.3, 0.5} when it is
\* not or when the computation fails.
C13_WeightsSumToOne ==
    /\ SumOfWeights(PriorWeights) = Frac(1, 1)
    /\ WeightsUpdated =>
          /\ SumOfWeights(call.out) = Frac(1, 1)
          /\ (\A k \in DOMAIN call.arg : FinitePositive(call.arg[k]))
                => \A j, k \in DOMAIN call.arg :
                      Div(call.out[j], call.out[k])
                         = Div(Add(call.arg[k], Epsilon), Add(call.arg[j], Epsilon))
          /\ (\E k \in DOMAIN call.arg : call.arg[k] \in {NaN, Frac(-1, 1000)})
                => call.out = PriorWeights

\* three different finite positive errors: the smallest error has the
\* largest weight
C13_Witness ==
    /\ WeightsUpdated
    /\ call.arg = [lr |-> Frac(1, 1000), prophet |-> Frac(3, 1000), xgb |-> Frac(4, 1000)]
    /\ call.out = [lr |-> Frac(10, 19), prophet |-> Frac(5, 19), xgb |-> Frac(4, 19)]
    /\ call.out # PriorWeights

----------------------------------------------------------------------------
(* Properties of the alert system *)

\* the rules whose predicate holds on the data, each with its severity
AlertTable(data) ==
    (IF data.quality_score < 40 THEN {<<"data_quality_critical", "critical">>} ELSE {})
    \cup (IF data.outlier_ratio > 15 THEN {<<"too_many_outliers", "warning">>} ELSE {})
    \cup (IF data.drift_level = "severe" THEN {<<"severe_drift", "critical">>} ELSE {})
    \cup (IF data.drift_level = "moderate" THEN {<<"moderate_drift", "warning">>} ELSE {})
    \cup (IF data.volatility > 8 THEN {<<"high_volatility", "warning">>} ELSE {})
    \cup (IF data.ensemble_mape # Missing /\ data.ensemble_mape > 25
          THEN {<<"model_performance_drop", "warning">>} ELSE {})
    \cup (IF data.consecutive_same > 10 THEN {<<"consecutive_same_price", "warning">>} ELSE {})

AlertsChecked == call.op = "check_alerts" /\ call.done

\* C14: check_alerts returns, and adds to the store, exactly one Alert of
\* the item for each rule whose predicate holds on the data and none for
\* the other rules, each with the severity of its rule.
C14_OneAlertPerRule ==
    AlertsChecked =>
        /\ ~call.out.raised
        /\ alerts = call.out.new
        /\ Len(call.out.new) = Cardinality(AlertTable(call.arg.data))
        /\ {<<call.out.new[i].alert_type, call.out.new[i].alert_level>> :
               i \in 1..Len(call.out.new)} = AlertTable(call.arg.data)
        /\ \A i \in 1..Len(call.out.new) : call.out.new[i].good_id = call.arg.good_id

\* the same for the data with a quality score of 40 or more
C14_OneAlertPerRuleAbove40 ==
    (AlertsChecked /\ call.arg.data.quality_score >= 40) =>
        /\ ~call.out.raised
        /\ alerts = call.out.new
        /\ Len(call.out.new) = Cardinality(AlertTable(call.arg.data))
        /\ {<<call.out.new[i].alert_type, call.out.new[i].alert_level>> :
               i \in 1..Len(call.out.new)} = AlertTable(call.arg.data)
        /\ \A i \in 1..Len(call.out.new) : call.out.new[i].good_id = call.arg.good_id

\* a quality score below 40: check_alerts raises and stores nothing
C14_RaisesBelow40 ==
    (AlertsChecked /\ call.arg.data.quality_score < 40) =>
        call.out.raised /\ alerts = <<>> /\ call.out.new = <<>>

\* the fields of an alert that are set when it is created
CreationFields(a) ==
    [alert_id |-> a.alert_id, good_id |-> a.good_id, alert_type |-> a.alert_type,
     alert_level |-> a.alert_level]

\* C15: the alert store is append-only: no call removes or reorders an
\* alert, every stored alert keeps the fields it was created with, only
\* acknowledged, acknowledged_by and acknowledged_at change, and
\* acknowledged never goes from true back to false.
C15_AppendOnly ==
    [][/\ Len(alerts') >= Len(alerts)
       /\ \A i \in 1..Len(alerts) :
            /\ CreationFields(alerts'[i]) = CreationFields(alerts[i])
            /\ alerts[i].acknowledged => alerts'[i].acknowledged]_vars

\* an alert was acknowledged, a later check appended another alert, and
\* the acknowledged one is still in its place
C15_Witness ==
    /\ scope = "alert"
    /\ Len(alerts) = 2
    /\ alerts[1].acknowledged /\ alerts[1].acknowledged_by \in Actors
    /\ alerts[2].alert_id[3] > alerts[1].acknowledged_at
    /\ ~alerts[2].acknowledged

\* the positions of the unacknowledged alerts of a store (of the item g
\* when g is not 0)
Unacknowledged(store, g) ==
    {i \in 1..Len(store) : ~store[i].acknowledged /\ (g = 0 \/ store[i].good_id = g)}

\* C16: acknowledge_alert(id, actor) returns true exactly when an alert
\* with the id is stored; then that alert is acknowledged by the actor, is
\* no longer active, and the other alerts are as they were; otherwise the
\* store is as it was. get_active_alerts returns exactly the unacknowledged
\* alerts (of the item when one is given), in the order of the store.
\* get_alert_summary reports the number stored, the number of active
\* alerts, and counts by severity that sum to the number stored.
C16_AcknowledgeAndQueries ==
    [][/\ call'.op = "acknowledge_alert" =>
            LET id == call'.arg.alert_id
                hits == {i \in 1..Len(alerts) : alerts[i].alert_id = id}
            IN  /\ call'.out = (hits # {})
                /\ Len(alerts') = Len(alerts)
                /\ hits = {} => alerts' = alerts
                /\ \A i \in hits :
                     /\ alerts'[i].acknowledged
                     /\ alerts'[i].acknowledged_by = call'.arg.acknowledged_by
                     /\ i \notin Unacknowledged(alerts', 0)
                /\ \A i \in (1..Len(alerts)) \ hits : alerts'[i] = alerts[i]
       /\ call'.op = "get_active_alerts" =>
            LET active == Unacknowledged(alerts, call'.arg) IN
            /\ alerts' = alerts
            /\ Len(call'.out) = Cardinality(active)
            /\ {call'.out[i] : i \in 1..Len(call'.out)} = {alerts[i] : i \in active}
            /\ \A i, j \in active : i < j =>
                 \E k, l \in 1..Len(call'.out) :
                    k < l /\ call'.out[k] = alerts[i] /\ call'.out[l] = alerts[j]
       /\ call'.op = "get_alert_summary" =>
            /\ alerts' = alerts
            /\ call'.out.total_alerts = Len(alerts)
            /\ call'.out.unacknowledged = Cardinality(Unacknowledged(alerts, 0))
            /\ \A level \in {"info", "warning", "critical"} :
                 call'.out.by_level[level]
                    = Cardinality({i \in 1..Len(alerts) : alerts[i].alert_level = level})
            /\ call'.out.by_level["info"] + call'.out.by_level["warning"]
                 + call'.out.by_level["critical"] = call'.out.total_alerts]_vars

\* an alert was acknowledged while an alert of the other severity is
\* still active
C16_Witness ==
    /\ call.op = "acknowledge_alert" /\ call.out
    /\ Len(alerts) = 2
    /\ alerts[1].alert_id = call.arg.alert_id
    /\ alerts[1].acknowledged /\ alerts[1].acknowledged_by = call.arg.acknowledged_by
    /\ ~alerts[2].acknowledged /\ alerts[2].alert_level # alerts[1].alert_level

----------------------------------------------------------------------------
(* Properties of the batch prediction *)

RECURSIVE Sum(_, _)
\* the sum of the counts of a set of statuses
Sum(stats, S) ==
    IF S = {} THEN 0
    ELSE LET x == CHOOSE y \in S : TRUE IN stats[x] + Sum(stats, S \ {x})

BatchReturned == call.op = "batch_predict" /\ call.done

\* C17: when the batch returns, every requested item has been given one
\* status of the eight, the counts of the statuses sum to the number of
\* requested ids, each count is the number of items with that status, and
\* the results are those of the items whose prediction succeeded; and the
\* batch cannot be stopped short of returning: whatever happened to the
\* items, as long as it has not returned some step can be taken.
C17_EveryItemOneStatus ==
    /\ BatchReturned =>
         /\ \A t \in Workers : pc[t] = "done" /\ resp[t].status \in Statuses
         /\ Sum(call.stats, Statuses) = Cardinality(Workers)
         /\ \A s \in Statuses :
              call.stats[s] = Cardinality({t \in Workers : resp[t].status = s})
         /\ call.out.total_requested = Cardinality(Workers)
         /\ call.out.total_success = Len(call.results)
         /\ Len(call.results) = Cardinality({t \in Workers : Answered(t)})
         /\ \A t \in Workers :
              Answered(t) => \E i \in 1..Len(call.results) :
                                call.results[i] = [good_id |-> req[t].good_id,
                                                   obj |-> resp[t].obj]
         /\ \A i \in 1..Len(call.results) :
              \E t \in Workers : /\ Answered(t)
                                  /\ call.results[i] = [good_id |-> req[t].good_id,
                                                        obj |-> resp[t].obj]
    /\ (call.op = "batch_predict" /\ ~call.done) => ENABLED BatchNext

\* one item of the batch ended in an exception, another one was trained
\* and predicted, and the batch returned
C17_Witness ==
    /\ BatchReturned
    /\ \E t1, t2 \in Workers :
         /\ resp[t1].status = "error"
         /\ resp[t2].status = "trained"
    /\ Len(call.results) = 1

----------------------------------------------------------------------------
(* Properties of the data quality check *)

QualityChecked == call.op = "check_quality" /\ call.done

\* the penalties of a series, each triggered on its own
Penalties(c) ==
    [missing |-> IF 100 * c.missing_values > 5 * c.total_points * Columns THEN 20 ELSE 0,
     outliers |-> IF 100 * c.outlier_count > 10 * c.total_points THEN 15
                  ELSE IF 100 * c.outlier_count > 5 * c.total_points THEN 5 ELSE 0,
     volatility |-> IF c.volatility > 50 THEN 10 ELSE 0,
     same |-> IF c.consecutive_same > 5 THEN 15 ELSE 0,
     jumps |-> IF 100 * c.suspicious_days > 10 * c.total_points THEN 10 ELSE 0,
     points |-> IF c.total_points < 10 THEN 20 ELSE IF c.total_points < 20 THEN 10 ELSE 0]

Clamp(x) == IF x < 0 THEN 0 ELSE IF x > 100 THEN 100 ELSE x

\* C18: the report that check_quality returns has the score 100 minus the
\* sum of the triggered penalties, clamped to 0..100, and the level good
\* from 80, warning from 60 and critical below; a series with more than 5%
\* missing values carries the 20 points for it once.
C18_ScoreIsHundredMinusPenalties ==
    (QualityChecked /\ ~call.out.raised) =>
        LET p == Penalties(call.arg)
            total == p.missing + p.outliers + p.volatility + p.same + p.jumps + p.points
        IN  /\ call.out.quality_score = Clamp(100 - total)
            /\ call.out.quality_score \in 0..100
            /\ call.out.quality_level =
                 (IF call.out.quality_score >= 80 THEN "good"
                  ELSE IF call.out.quality_score >= 60 THEN "warning" ELSE "critical")
            /\ 100 * call.arg.missing_values > 5 * call.arg.total_points * Columns
                 => call.out.quality_score
                      = Clamp(100 - 20 - (p.outliers + p.volatility + p.same + p.jumps + p.points))

\* 19 points, more than 5% of the cells missing, more than 10% outliers,
\* volatility above 5%, more than 5 repeated prices, more than 10% jumps:
\* every penalty applies and the score is 20, critical
C18_Witness ==
    /\ QualityChecked /\ ~call.out.raised
    /\ call.arg.total_points = 19
    /\ Penalties(call.arg) = [missing |-> 20, outliers |-> 15, volatility |-> 10,
                              same |-> 15, jumps |-> 10, points |-> 10]
    /\ call.out.quality_score = 20 /\ call.out.quality_level = "critical"

\* C19: for a series of 5 points check_quality reports total_points 5 and
\* the level critical, and the score includes the penalty for too few
\* points.
C19_FivePointsCritical ==
    (QualityChecked /\ call.arg.total_points = 5) =>
        /\ ~call.out.raised
        /\ call.out.total_points = 5
        /\ call.out.quality_level = "critical"
        /\ call.out.quality_score <= 100 - 20

\* what holds of a series of 5 points: total_points 5 and a score of at
\* most 80, which is the level good when nothing else is wrong
C19_FivePointsAtMost80 ==
    (QualityChecked /\ call.arg.total_points = 5) =>
        /\ ~call.out.raised
        /\ call.out.total_points = 5
        /\ call.out.quality_score <= 100 - 20

\* C20: check_quality never fails: for every series, the empty series and
\* a single point included, it returns a report.
C20_NeverFails ==
    QualityChecked => ~call.out.raised

\* what holds: a report for every series that is not empty
C20_ReportUnlessEmpty ==
    QualityChecked => (call.out.raised <=> call.arg.total_points = 0)

----------------------------------------------------------------------------
(* Properties of the drift detection *)

DriftDetected == call.op = "detect_drift" /\ call.done

\* the two windows of a series of n points, the recent one being the last
\* 30%
Windows(n) == [old |-> (7 * n) \div 10, new |-> n - (7 * n) \div 10]

\* the contributions to the drift score, each triggered on its own
DriftTable(c) ==
    [mean |-> IF c.mean_shift_pct > 100 THEN 30 ELSE IF c.mean_shift_pct > 50 THEN 15 ELSE 0,
     std |-> IF c.std_shift_pct > 200 THEN 20 ELSE IF c.std_shift_pct > 100 THEN 10 ELSE 0,
     ks |-> IF c.ks_pvalue < 10 THEN 30 ELSE IF c.ks_pvalue < 50 THEN 15 ELSE 0,
     kl |-> IF c.kl_divergence > 500 THEN 10 ELSE IF c.kl_divergence > 200 THEN 5 ELSE 0,
     range |-> IF c.range_shift_pct > 300 /\ ~c.same THEN 10 ELSE 0]

\* C21: the drift score is the sum of the contributions of the mean shift,
\* the std shift, the KS p-value, the KL divergence and the range shift,
\* capped at 100; the level is none, mild, moderate, severe for a score
\* below 20, below 40, below 60, or more; has_drift is false for none, true
\* for severe, score >= threshold * 40 for mild and score >= threshold * 60
\* for moderate. With a window of fewer than 3 points, or with the same
\* windows, the report has score 0, level none and no drift.
C21_DriftScoreAndLevel ==
    DriftDetected =>
        LET c == call.arg
            r == call.out
            t == DriftTable(c)
            total == t.mean + t.std + t.ks + t.kl + t.range
            degenerate == Windows(c.len).old < 3 \/ Windows(c.len).new < 3
        IN  /\ ~degenerate => r.drift_score = (IF total > 100 THEN 100 ELSE total)
            /\ r.drift_level = (IF r.drift_score < 20 THEN "none"
                                ELSE IF r.drift_score < 40 THEN "mild"
                                ELSE IF r.drift_score < 60 THEN "moderate" ELSE "severe")
            /\ r.drift_level = "none" => ~r.has_drift
            /\ r.drift_level = "severe" => r.has_drift
            /\ r.drift_level = "mild" => (r.has_drift <=> r.drift_score * 10 >= c.drift_threshold * 40)
            /\ r.drift_level = "moderate"
                 => (r.has_drift <=> r.drift_score * 10 >= c.drift_threshold * 60)
            /\ (degenerate \/ c.same)
                 => r.drift_score = 0 /\ r.drift_level = "none" /\ ~r.has_drift

\* every contribution at its higher tier on windows of 21 and 9 points:
\* score 100, severe
C21_Witness ==
    /\ DriftDetected
    /\ /\ /\ DriftTable(call.arg) = [mean |-> 30, std |-> 20, ks |-> 30, kl |-> 10, range |-> 10]
          /\ call.out = [drift_score |-> 100, drift_level |-> "severe", has_drift |-> TRUE]
          /\ call.arg.len = 30

----------------------------------------------------------------------------
(* Properties of the retry loop *)

\* fetch_kline has returned after the server answered every request with 429
GaveUpOn429 == call.op = "fetch_kline" /\ call.at = "returned" /\ call.gave_up

\* the waits were 1, 2, 4, ... seconds, each with a jitter of at most 10%
Backoff(waits) ==
    \A i \in 1..Len(waits) :
        /\ waits[i].wait_time = 1000 * 2 ^ (i - 1)
        /\ waits[i].jitter * 10 <= waits[i].wait_time
        /\ waits[i].jitter * 10 >= -waits[i].wait_time

\* C22: when the server keeps answering 429, fetch_kline waits 1, 2, 4, 8
\* and then 16 seconds (each within 10% of jitter) before the successive
\* retries, makes max_retries retries after the initial request (5 by
\* default), and then returns None.
C22_MaxRetriesRetries ==
    GaveUpOn429 =>
        /\ call.out = "None"
        /\ Backoff(call.waits)
        /\ Len(call.waits) = call.max_retries
        /\ call.requests = 1 + call.max_retries

\* what the loop does: the request that brings the number of 429 answers to
\* max_retries is the last one, so there are max_retries requests in all
\* and max_retries - 1 waits
C22_OneRetryFewer ==
    GaveUpOn429 =>
        /\ call.out = "None"
        /\ Backoff(call.waits)
        /\ Len(call.waits) = call.max_retries - 1
        /\ call.requests = call.max_retries
        /\ \A i \in 1..Len(call.waits) : call.waits[i].jitter >= 0

\* the default call has given up after waits of 1, 2, 4 and 8 seconds
C22_DefaultGaveUpAfterFour ==
    /\ GaveUpOn429
    /\ call.max_retries = 5
    /\ call.requests = 5
    /\ [i \in 1..Len(call.waits) |-> call.waits[i].wait_time] = <<1000, 2000, 4000, 8000>>

----------------------------------------------------------------------------
(* Properties of the locks *)

\* the threads that are fetching, loading, training, saving or predicting
\* inside the section of an item other than the one t's request is about
BusyElsewhere(t) ==
    {u \in Threads \ {t} : InSection(u) /\ req[u].good_id # req[t].good_id}

\* no other thread is inside the section of the item of t's request
ItemFree(t) ==
    \A u \in Threads \ {t} : InSection(u) => req[u].good_id # req[t].good_id

\* C23: the global lock is held only inside the bookkeeping calls of the
\* cache manager, never across a fetch, a disk load or save, or a training:
\* whatever threads are working on other items, a request whose own item is
\* not being served can take its next step (get_lock, get, put, size and
\* clear included), so a thread working on item A never blocks a request
\* for item B.
C23_OtherItemNeverBlocks ==
    \A t \in Threads : (pc[t] # "done" /\ ItemFree(t)) => ENABLED Step(t)

\* a thread waits to enter the section of its item, or is about to call
\* get_lock, while another thread is training a different item
C23_Witness ==
    \E t \in Threads :
        /\ pc[t] \in {"start", "acquire"}
        /\ req[t].kind = "predict"
        /\ ItemFree(t)
        /\ \E u \in BusyElsewhere(t) : pc[u] = "fit"
        /\ ENABLED Step(t)

----------------------------------------------------------------------------
(* Properties of the training paths *)

\* thread t's _full_retrain or _incremental_train returns True in this step
FitCompleted(t) == pc[t] = "fit" /\ pc'[t] = "trained" /\ cycle'[t].ret = "true"

\* the submodels after a completed training on the path chosen
PathReplaces(t) ==
    /\ model'[t].lr = "fitted"
    /\ model'[t].prophet = "fitted"
    /\ model'[t].xgb = IF cycle[t].strategy = "incremental" THEN "warm" ELSE "fitted"

\* C24: on the incremental path the gradient-boosted submodel is continued
\* from its fitted state and the two others are refit from scratch; on the
\* full path every submodel is replaced by a freshly fitted one.
C24_IncrementalContinuesBooster ==
    [][\A t \in Threads : FitCompleted(t) => PathReplaces(t)]_vars

\* v2 does what C24 says
C24_V2ContinuesBooster ==
    [][\A t \in Threads : (version = "v2" /\ FitCompleted(t)) => PathReplaces(t)]_vars

\* v3 replaces every submodel by a fresh one on both paths
C24_V3AlwaysFresh ==
    [][\A t \in Threads :
          (version = "v3" /\ FitCompleted(t))
              => /\ model'[t].lr = "fitted"
                 /\ model'[t].prophet = "fitted"
                 /\ model'[t].xgb = "fitted"]_vars

\* an incremental training of v3 has completed
C24_V3IncrementalCompleted ==
    \E t \in Threads :
        /\ version = "v3"
        /\ pc[t] = "trained"
        /\ cycle[t].strategy = "incremental"
        /\ cycle[t].ret = "true"
        /\ model[t].xgb = "fitted"

\* metrics['training_count'] of a model object
CountOf(m) == m.metrics.training_count

\* thread t holds the same model object before and after the step
SameObject(t) == model[t].obj # 0 /\ model'[t].obj = model[t].obj

\* a completed training counts once and stamps last_training
Counted(t) ==
    FitCompleted(t) => /\ CountOf(model'[t]) = CountOf(model[t]) + 1
                       /\ model'[t].metrics.last_training # 0

\* a completed training records the strategy the decision chose
StrategyRecorded(t) ==
    FitCompleted(t) =>
        model'[t].metrics.training_strategy =
            (IF cycle[t].strategy = "incremental" THEN "incremental" ELSE "full_retrain")

\* the count of an object never decreases, and a train() that skips, is
\* rejected by a guard or fails leaves it as it was
CountKept(t) ==
    (SameObject(t) /\ ~FitCompleted(t)) =>
        /\ CountOf(model'[t]) >= CountOf(model[t])
        /\ pc[t] \in {"train", "fit"} => CountOf(model'[t]) = CountOf(model[t])

\* the count a successful save_model writes is the one a later load_model
\* reads
RoundTrip(t) ==
    LET g == req[t].good_id IN
    /\ (FitCompleted(t) /\ model'[t].origin = "persisted")
           => /\ disk'[g].state = "ok"
              /\ CountOf(disk'[g].rec) = CountOf(model'[t])
    /\ (pc[t] = "load" /\ pc'[t] = "predict") => CountOf(model'[t]) = CountOf(disk[g].rec)

\* C25: every cycle that completes the full or the incremental path adds
\* exactly 1 to training_count, sets last_training and records the strategy
\* the decision chose (incremental when the decision was incremental); the
\* count never decreases and is unchanged by skipped, rejected and failed
\* cycles and by a save/load round trip.
C25_CountAndStrategy ==
    [][\A t \in Threads :
          Counted(t) /\ StrategyRecorded(t) /\ CountKept(t) /\ RoundTrip(t)]_vars

\* the part of C25 about the count and last_training holds in both versions
C25_CountExact ==
    [][\A t \in Threads : Counted(t) /\ CountKept(t) /\ RoundTrip(t)]_vars

\* v2 records the strategy chosen
C25_V2StrategyRecorded ==
    [][\A t \in Threads : version = "v2" => StrategyRecorded(t)]_vars

\* v3 records full_retrain whatever the decision was
C25_V3RecordsFullRetrain ==
    [][\A t \in Threads :
          (version = "v3" /\ FitCompleted(t))
              => model'[t].metrics.training_strategy = "full_retrain"]_vars

\* a v3 cycle decided incremental has completed and recorded full_retrain
C25_V3IncrementalRecordedFull ==
    \E t \in Threads :
        /\ version = "v3"
        /\ pc[t] = "trained"
        /\ cycle[t].strategy = "incremental"
        /\ cycle[t].ret = "true"
        /\ model[t].metrics.training_strategy = "full_retrain"
        /\ model[t].metrics.training_count = 2

----------------------------------------------------------------------------
(* Properties of the cleaning step *)

\* thread t's train() has passed the stagnation guard, so it has decided
\* whether to clean
CleaningDecided(t) == pc[t] \in {"trained", "fit"} /\ cycle[t].clean # "none"

\* the cycle went through drift detection and alert evaluation and reached
\* the training decision
ReachedDecision(c) == c.outcome = "skip" \/ c.strategy \in {"incremental", "full"}

\* the series the cycle trains on is the cleaned one
TrainsOnCleaned(c) ==
    c.strategy \in {"incremental", "full"} => c.d \in {Cleaned(d) : d \in Series}

\* cleaning ran if and only if the level was critical, and a cleaned series
\* that is too short ends the cycle with False
CleanIffCritical(c) ==
    /\ c.clean # "keep" <=> c.quality < 60
    /\ c.clean = "short" => c.ret = "false" /\ ~ReachedDecision(c)

\* C26: cleaning runs in a cycle if and only if the quality level is
\* critical; when the cleaned series has fewer than 10 observations train()
\* returns False; otherwise the cycle goes on with the cleaned series through
\* drift detection, alert evaluation and the decision to the path chosen
\* (a drift detection that raises apart).
C26_CleanThenContinue ==
    \A t \in Threads :
        CleaningDecided(t) =>
            LET c == cycle[t] IN
            /\ CleanIffCritical(c)
            /\ (c.clean = "ok" /\ c.outcome # "drift_raise")
                   => ReachedDecision(c) /\ TrainsOnCleaned(c)

\* what holds: the cleaned cycle goes on to the decision when the quality
\* score is 40 or more
C26_ContinuesFrom40 ==
    \A t \in Threads :
        CleaningDecided(t) =>
            LET c == cycle[t] IN
            /\ CleanIffCritical(c)
            /\ (c.clean = "ok" /\ c.outcome # "drift_raise" /\ c.quality >= 40)
                   => ReachedDecision(c) /\ TrainsOnCleaned(c)

\* below 40 the cleaned cycle ends in check_alerts, and train() returns False
C26_Below40EndsInAlerts ==
    \A t \in Threads :
        (CleaningDecided(t) /\ cycle[t].clean = "ok" /\ cycle[t].quality < 40
            /\ cycle[t].outcome # "drift_raise")
            => /\ cycle[t].outcome = "alert_raise"
               /\ cycle[t].ret = "false"
               /\ ~ReachedDecision(cycle[t])

\* a cycle has cleaned its series to 10 points or more and ended in
\* check_alerts
C26_CleanedEndedInAlerts ==
    \E t \in Threads :
        /\ pc[t] = "trained"
        /\ cycle[t].clean = "ok"
        /\ cycle[t].quality = 30
        /\ cycle[t].outcome = "alert_raise"

----------------------------------------------------------------------------
(* Properties of the weights as a function of the errors *)

\* x < y for two finite numbers
Less(x, y) == x.n * y.d < y.n * x.d

\* a MAPE that is missing or a finite number that is not negative
Recorded(v) == v.kind = "none" \/ (v.kind = "num" /\ v.n >= 0)

\* a missing MAPE counts as 1.0, a recorded one as itself
MissingAsOne(v) == IF v.kind = "none" THEN Frac(1, 1) ELSE v

\* the weights are in the ratio of the inverse errors, a missing error
\* counted as 1.0, and a strictly smaller recorded error never has the
\* smaller weight
InverseErrorWeights(mape, w) ==
    /\ \A j, k \in DOMAIN mape :
          Div(w[j], w[k]) = Div(Add(MissingAsOne(mape[k]), Epsilon),
                                Add(MissingAsOne(mape[j]), Epsilon))
    /\ \A j, k \in DOMAIN mape :
          (mape[j].kind = "num" /\ mape[k].kind = "num" /\ Less(mape[j], mape[k]))
              => ~Less(w[j], w[k])

\* C27: _update_weights gives every submodel the weight
\* (1 / (mape_i + 0.001)) / sum_j (1 / (mape_j + 0.001)), only a missing MAPE
\* being replaced by 1.0; a submodel with a strictly smaller recorded MAPE,
\* a MAPE of exactly 0 included, never has a smaller weight than one with a
\* larger MAPE.
C27_SmallerErrorNeverLighter ==
    (WeightsUpdated /\ \A k \in DOMAIN call.arg : Recorded(call.arg[k]))
        => InverseErrorWeights(call.arg, call.out)

\* what holds: the same for errors that are missing or strictly positive
C27_PositiveErrorsOrdered ==
    (WeightsUpdated /\ \A k \in DOMAIN call.arg : Recorded(call.arg[k]) /\ call.arg[k] # Frac(0, 1))
        => InverseErrorWeights(call.arg, call.out)

\* a MAPE of exactly 0 is weighted like a MAPE of 1.0
C27_ZeroWeightedAsOne ==
    (WeightsUpdated /\ \A k \in DOMAIN call.arg : Recorded(call.arg[k]))
        => \A j, k \in DOMAIN call.arg :
              (call.arg[j] = Frac(0, 1) /\ call.arg[k] = None) => call.out[j] = call.out[k]

\* lr has a MAPE of 0 and the lightest weight
C27_PerfectModelLightest ==
    /\ WeightsUpdated
    /\ call.arg = [lr |-> Frac(0, 1), prophet |-> Frac(3, 1000), xgb |-> Frac(4, 1000)]
    /\ Less(call.out.lr, call.out.prophet)
    /\ Less(call.out.lr, call.out.xgb)

----------------------------------------------------------------------------
(* Properties of clear_cache_endpoint *)

\* thread t's clear_cache_endpoint calls CACHE_MANAGER.clear() and answers
\* in this step
Clears(t) == pc[t] = "clear" /\ pc'[t] = "done"

\* C28: the count the clear-cache operation reports is the number of
\* entries it removed, whatever put() calls of predict requests run
\* concurrently.
C28_CountIsEntriesRemoved ==
    [][\A t \in Threads :
          Clears(t) => /\ cache' = EmptyDict
                       /\ resp'[t].status = "cleared"
                       /\ resp'[t].obj = Cardinality(DOMAIN cache)]_vars

\* the count reported is the size read by the earlier size() call
C28_CountIsSizeRead ==
    [][\A t \in Threads :
          Clears(t) => /\ cache' = EmptyDict
                       /\ resp'[t].status = "cleared"
                       /\ resp'[t].obj = cycle[t].n]_vars

\* a clear request has read the size 0 and a predict request has cached a
\* model before the clear() call
C28_PutBetweenSizeAndClear ==
    \E t \in Threads :
        /\ pc[t] = "clear"
        /\ cycle[t].n = 0
        /\ Cardinality(DOMAIN cache) = 1

----------------------------------------------------------------------------
(* Properties of the locking discipline *)

\* the item locks thread t holds
Held(t) == {l \in DOMAIN locks : locks[l] = t}

\* thread t waits for the lock of its item
Waiting(t) == pc[t] = "acquire"

\* no deadlock, no hold-and-wait, one item lock at most, and no lock kept
\* after the handler has returned, however it returned
LockDiscipline ==
    /\ (\E t \in Threads : pc[t] # "done") => ENABLED Next
    /\ \A t \in Threads :
          /\ Cardinality(Held(t)) <= 1
          /\ Held(t) # {} <=> InSection(t)
          /\ InSection(t) => Held(t) = {item_lock[t]}

C29_AllAnswered == <>(\A t \in Threads : pc[t] = "done")

----------------------------------------------------------------------------
(* Properties of the stagnation guard *)

GuardApplied == call.op = "price_stagnant" /\ call.done

\* the rows of df at most 12 hours older than its latest row
LastTwelveHours(df) ==
    {i \in DOMAIN df : \A j \in DOMAIN df : df[j].timestamp - df[i].timestamp <= 12}

\* C30: the stagnation guard rejects the cycle exactly when all observations
\* within 12 hours of the latest timestamp of the series have the same sell
\* price; a series whose latest observation is the only one in its last 12
\* hours is always rejected, whatever the prices before.
C30_RejectsIffWindowConstant ==
    GuardApplied =>
        LET df == call.arg
            window == LastTwelveHours(df)
        IN  /\ call.out <=> \A i, j \in window : df[i].sell_price = df[j].sell_price
            /\ Len(df) \in window
            /\ window = {Len(df)} => call.out

\* the latest observation is 13 hours after the one before it, the earlier
\* prices vary, and the series is rejected
C30_Witness ==
    /\ GuardApplied
    /\ LastTwelveHours(call.arg) = {10}
    /\ call.arg[10].timestamp = 43
    /\ call.arg[9].timestamp = 30
    /\ call.arg[9].sell_price # call.arg[10].sell_price
    /\ call.out

====
